---- MODULE Spec2Model ----
(***************************************************************************)
(* Pricing and admission-control core of ebay-media-reselling-automation.  *)
(*                                                                         *)
(*   rate_limiter.py     RateLimiter: set_limit, _cleanup_old_timestamps,  *)
(*                       is_allowed, limit (decorator)                     *)
(*   price_calculator.py PriceCalculator.calculate_list_price              *)
(*                                                                         *)
(* Time is counted in ticks of 1/TicksPerSec second, so that the float     *)
(* arithmetic of is_allowed (time.time() differences, int(...)) is exact.  *)
(* Windows and intervals are whole seconds, as in the source.              *)
(***************************************************************************)
EXTENDS Integers, Sequences, FiniteSets, TLC

VARIABLES
    limits,        \* self.limits:  endpoint -> max_requests (Absent: no key)
    windows,       \* self.windows: endpoint -> window seconds (Absent: no key)
    requests,      \* self.requests: function on the tracked <<endpoint, key>> pairs
    last_cleanup,  \* self.last_cleanup, in ticks
    lock,          \* self.lock: 0 when free, else the thread holding it
    clock,         \* time.time(), in ticks
    thr,           \* the request threads: position and locals of each
    last,          \* the call that returned most recently: its locals and result
    setter,        \* the thread that registers rules (set_limit / limit)
    decorated,     \* endpoint -> how its handler is wrapped by limit()
    admitted,      \* history: every timestamp ever admitted, per <<endpoint, key>>
    issued,        \* history: how many calls of is_allowed and of set_limit were made
    pricing,       \* a PriceCalculator, its caller's position and the results it got
    intake,        \* a caller of the SKU builders and of ItemClassifier, and its results
    shipping,      \* a ShippingCalculator, its caller's position and the quotes it got
    script         \* a sequential caller of the limiter: its operations and their results

vars == <<limits, windows, requests, last_cleanup, lock, clock, thr, last, setter,
          decorated, admitted, issued, pricing, intake, shipping, script>>

----------------------------------------------------------------------------
(* Bounds of the model *)

MaxTime == 4
MaxCalls == 3
MaxSetLimits == 3
TicksPerSec == 2
CleanupIntervalSec == 1
MinMedianCents == 380
MaxMedianCents == 600
MaxPricingRounds == 2
MaxWeightOz == 130
MaxWorkflowCalls == 3
MaxReplayTime == 5

(* Program constants *)

DefaultWindow == 60
DefaultSweepWindow == 60
MIN_LIST_PRICE == 500
MIN_PROFIT_MARGIN == 275
DefaultShippingCost == 350
WEIGHT_VIDEO_GAME == 6
WEIGHT_DVD == 5
WEIGHT_CD == 5
WEIGHT_DISC_ONLY == 4
DefaultItemWeight == 5
DefaultWeightTenths == 50

Threads == {1, 2}
Endpoints == {"telegram-webhook", "price-lookup"}
RemoteAddrs == {"10.0.0.1", "none"}
DirectKeys == {"global", "10.0.0.1"}
MaxRequestsArgs == {0, 1, 2}
WindowArgs == {1, 2}
Markups == {0, 5, 10, 15, 20, 25}

Absent == 0 - 1
None == 0 - 1

----------------------------------------------------------------------------
(* Helpers of the limiter *)

Ticks(sec) == sec * TicksPerSec

(* self.requests[endpoint][limit_key] read through the defaultdicts *)
Log(e, k) == IF <<e, k>> \in DOMAIN requests THEN requests[<<e, k>>] ELSE <<>>

(* a prune that keeps the timestamp lying exactly on the cutoff: ts >= cutoff *)
RecentInclusive(ts, now, window) == SelectSeq(ts, LAMBDA t : t >= now - Ticks(window))

(* recent = [ts for ts in timestamps if ts > cutoff], cutoff = now - window *)
Recent(ts, now, window) == SelectSeq(ts, LAMBDA t : t > now - Ticks(window))

(* a sweep that removes nothing *)
SweepKeepAll(ts, now, window) == ts

(* [ts for ts in ... if now - ts < window] of the sweep *)
SweepKeep(ts, now, window) == SelectSeq(ts, LAMBDA t : now - t < Ticks(window))

(* int(x) of a float x = ticks / TicksPerSec: truncation toward zero *)
PyInt(ticks) == IF ticks >= 0 THEN ticks \div TicksPerSec
                ELSE 0 - ((0 - ticks) \div TicksPerSec)

(* the hint without its + 1: int(window - (now - oldest)) *)
RetryAfterTruncated(window, now, oldest) == PyInt(Ticks(window) - (now - oldest))

(* retry_after = int(window - (now - oldest)) + 1 *)
RetryAfter(window, now, oldest) == PyInt(Ticks(window) - (now - oldest)) + 1

(* an off-by-one comparison: len(recent) <= max_requests *)
UnderLimitOffByOne(recent, max_requests) == Len(recent) <= max_requests

(* len(recent) < max_requests *)
UnderLimit(recent, max_requests) == Len(recent) < max_requests

(* self.windows.get(endpoint, 60) *)
WindowOrDefault(e) == IF windows[e] = Absent THEN DefaultSweepWindow ELSE windows[e]

(* now - self.last_cleanup < self.cleanup_interval: the sweep is skipped *)
SweepSkipped(now) == now - last_cleanup < Ticks(CleanupIntervalSec)

(* a sweep that also drops the pairs whose log it has emptied *)
SweptForgetting(now) ==
    [pair \in {q \in DOMAIN requests :
                 SweepKeep(requests[q], now, WindowOrDefault(q[1])) # <<>>} |->
        SweepKeep(requests[pair], now, WindowOrDefault(pair[1]))]

(* the loop of _cleanup_old_timestamps over every tracked endpoint and key *)
Swept(now) == [pair \in DOMAIN requests |->
                  SweepKeep(requests[pair], now, WindowOrDefault(pair[1]))]

(* the early return forgotten: every endpoint is taken to have a rule *)
NoRuleNever(e) == FALSE

(* line 73: endpoint not in self.limits *)
NoRule(e) == limits[e] = Absent

(* a lock that never blocks: is_allowed without its with self.lock *)
LockNeverBlocks == TRUE

(* threading.Lock: acquire blocks while another thread holds it *)
LockFree == lock = 0

IdleThread == [pc |-> "idle", mode |-> "direct", endpoint |-> "", key |-> "",
               window |-> Absent, max_requests |-> Absent, now |-> 0,
               recent |-> <<>>, allowed |-> FALSE, retry |-> None,
               exc |-> "", consults |-> 0, handler_ran |-> FALSE,
               status |-> 0, body_retry |-> None, complete |-> {}]

InCall(p) == thr[p].pc \in {"acquire", "check", "prune", "admit"}

(* what a finished call leaves behind: the thread's record, its pc telling *)
(* how it ended ("returned", "raised", "responded"), the thread, and       *)
(* whether another thread was inside is_allowed when it ended              *)
NoCall == [IdleThread EXCEPT !.pc = "none"] @@ [thread |-> 0, concurrent |-> FALSE]
Ended(p, rec) ==
    rec @@ [thread |-> p, concurrent |-> \E o \in Threads \ {p} : InCall(o)]

(* the registering thread: its position and, between the two writes of *)
(* set_limit, the arguments of the call and the limit it replaced        *)
IdleSetter == [pc |-> "idle", endpoint |-> "", window |-> Absent,
               old_max |-> Absent, wrap |-> "none"]

(* the rules a call for endpoint e that starts now may legitimately be     *)
(* evaluated against: the registered one and, while set_limit is between    *)
(* its two writes, the one being replaced and the one being written         *)
CompleteRules(e) ==
    IF setter.pc = "line42" /\ setter.endpoint = e
    THEN {<<limits[e], setter.window>>} \cup
         (IF setter.old_max = Absent THEN {} ELSE {<<setter.old_max, windows[e]>>})
    ELSE IF limits[e] = Absent THEN {} ELSE {<<limits[e], windows[e]>>}

----------------------------------------------------------------------------
(* Initial state: RateLimiter.__init__ *)

NoScript == [run |-> 0]
InitPricing == pricing = [pc |-> "none"]
InitIntake == intake = [pc |-> "none"]
InitShipping == shipping = [pc |-> "none"]

Init ==
    /\ limits = [e \in Endpoints |-> Absent]
    /\ windows = [e \in Endpoints |-> Absent]
    /\ requests = <<>>
    /\ last_cleanup = 0
    /\ lock = 0
    /\ clock = 0
    /\ thr = [p \in Threads |-> IdleThread]
    /\ last = NoCall
    /\ setter = IdleSetter
    /\ decorated = [e \in Endpoints |-> "none"]
    /\ admitted = <<>>
    /\ issued = [calls |-> 0, set_limits |-> 0]
    /\ script = NoScript
    /\ InitPricing
    /\ InitIntake
    /\ InitShipping

----------------------------------------------------------------------------
(* time.time() advances *)

Advance(d) ==
    /\ clock + d <= MaxTime
    /\ clock' = clock + d
    /\ UNCHANGED <<limits, windows, requests, last_cleanup, lock, thr, setter,
                   decorated, admitted, issued, last, pricing, intake, shipping, script>>

----------------------------------------------------------------------------
(* set_limit: two writes, outside the lock *)

(* line 41: self.limits[endpoint] = requests_per_minute *)
SetLimitLine41(e, m, w, wrap) ==
    /\ setter.pc = "idle"
    /\ issued.set_limits < MaxSetLimits
    /\ issued' = [issued EXCEPT !.set_limits = @ + 1]
    /\ limits' = [limits EXCEPT ![e] = m]
    /\ setter' = [pc |-> "line42", endpoint |-> e, window |-> w,
                  old_max |-> limits[e], wrap |-> wrap]
    /\ thr' = [p \in Threads |->
                 IF InCall(p) /\ thr[p].pc # "admit" /\ thr[p].endpoint = e
                 THEN [thr[p] EXCEPT !.complete = @ \cup {<<m, w>>}]
                 ELSE thr[p]]
    /\ UNCHANGED <<windows, requests, last_cleanup, lock, clock,
                   decorated, admitted, last, pricing, intake, shipping, script>>

(* a direct call set_limit(endpoint, requests_per_minute, window) *)
SetLimitCall(e, m, w) == SetLimitLine41(e, m, w, "none")

(* limit(endpoint, requests_per_minute, use_user_id): line 107 calls set_limit *)
(* with the default window, then the decorator wraps the handler            *)
LimitCall(e, m, use_user_id) ==
    /\ decorated[e] = "none"
    /\ SetLimitLine41(e, m, DefaultWindow, IF use_user_id THEN "per_user" ELSE "global")

(* a set_limit that also forgets the recorded timestamps *)
SetLimitLine42Clearing ==
    /\ setter.pc = "line42"
    /\ windows' = [windows EXCEPT ![setter.endpoint] = setter.window]
    /\ requests' = <<>>
    /\ setter' = IdleSetter
    /\ UNCHANGED <<limits, decorated, last_cleanup, lock, clock, thr, admitted,
                   issued, last, pricing, intake, shipping, script>>

(* line 42: self.windows[endpoint] = window; limit() then returns the decorator *)
SetLimitLine42 ==
    /\ setter.pc = "line42"
    /\ windows' = [windows EXCEPT ![setter.endpoint] = setter.window]
    /\ decorated' = IF setter.wrap = "none" THEN decorated
                    ELSE [decorated EXCEPT ![setter.endpoint] = setter.wrap]
    /\ setter' = IdleSetter
    /\ UNCHANGED <<limits, requests, last_cleanup, lock, clock, thr, admitted,
                   issued, last, pricing, intake, shipping, script>>

----------------------------------------------------------------------------
(* is_allowed, one thread p *)

(* the caller invokes is_allowed(endpoint, limit_key) and waits for the lock *)
Invoke(p, mode, e, k) ==
    /\ issued.calls < MaxCalls
    /\ issued' = [issued EXCEPT !.calls = @ + 1]
    /\ thr' = [thr EXCEPT ![p] = [IdleThread EXCEPT
                !.pc = "acquire", !.mode = mode, !.endpoint = e, !.key = k,
                !.consults = 1, !.complete = CompleteRules(e)]]

(* a direct call of is_allowed *)
CallIsAllowed(p, e, k) ==
    /\ thr[p].pc = "idle"
    /\ Invoke(p, "direct", e, k)
    /\ UNCHANGED <<limits, windows, requests, last_cleanup, lock, clock, setter,
                   decorated, admitted, last, pricing, intake, shipping, script>>

(* decorated_function, lines 112-115: request.remote_addr or 'unknown', or 'global' *)
LimitKey(use_user_id, remote_addr) ==
    IF use_user_id
    THEN (IF remote_addr = "none" THEN "unknown" ELSE remote_addr)
    ELSE "global"

(* decorated_function, lines 111-117: the key, then is_allowed *)
DecoratedRequest(p, e, remote_addr) ==
    /\ thr[p].pc = "idle"
    /\ decorated[e] # "none"
    /\ Invoke(p, "wrapped", e, LimitKey(decorated[e] = "per_user", remote_addr))
    /\ UNCHANGED <<limits, windows, requests, last_cleanup, lock, clock, setter,
                   decorated, admitted, last, pricing, intake, shipping, script>>

(* lines 70-71: with self.lock, then _cleanup_old_timestamps (lines 46-58) *)
Acquire(p) ==
    /\ thr[p].pc = "acquire"
    /\ LockFree
    /\ lock' = p
    /\ IF SweepSkipped(clock)
       THEN UNCHANGED <<requests, last_cleanup>>
       ELSE /\ requests' = Swept(clock)
            /\ last_cleanup' = clock
    /\ thr' = [thr EXCEPT ![p].pc = "check"]
    /\ UNCHANGED <<limits, windows, clock, setter, decorated, admitted, issued, last, pricing, intake, shipping, script>>

(* is_allowed returns rec to its caller: a direct caller is done, the      *)
(* wrapper of limit() goes on with the result                              *)
Returns(p, rec) ==
    /\ thr' = [thr EXCEPT ![p] = IF rec.mode = "wrapped"
                                 THEN [rec EXCEPT !.pc = "returned"]
                                 ELSE IdleThread]
    /\ last' = Ended(p, [rec EXCEPT !.pc = "returned"])

(* is_allowed raises: the exception passes through the wrapper to the caller *)
Raises(p, rec, exc) ==
    /\ thr' = [thr EXCEPT ![p] = IdleThread]
    /\ last' = Ended(p, [rec EXCEPT !.pc = "raised", !.exc = exc])

(* lines 73-76: no rule: allowed; else window = self.windows[endpoint], *)
(* a KeyError when set_limit has written the limit and not yet the window. *)
(* Leaving the with block, by return or by exception, releases the lock.   *)
Check(p) ==
    /\ thr[p].pc = "check"
    /\ LET e == thr[p].endpoint IN
       IF NoRule(e)
       THEN /\ Returns(p, [thr[p] EXCEPT !.allowed = TRUE, !.retry = None])
            /\ lock' = 0
       ELSE IF windows[e] = Absent
       THEN /\ Raises(p, thr[p], "KeyError")
            /\ lock' = 0
       ELSE /\ thr' = [thr EXCEPT ![p].pc = "prune", ![p].window = windows[e]]
            /\ UNCHANGED <<lock, last>>
    /\ UNCHANGED <<limits, windows, requests, last_cleanup, clock, setter,
                   decorated, admitted, issued, pricing, intake, shipping, script>>

(* lines 77-83: max_requests, now, cutoff, recent; the pruned list is stored *)
Prune(p) ==
    /\ thr[p].pc = "prune"
    /\ LET e == thr[p].endpoint
           k == thr[p].key
           recent == Recent(Log(e, k), clock, thr[p].window)
       IN /\ thr' = [thr EXCEPT ![p].pc = "admit", ![p].max_requests = limits[e],
                                ![p].now = clock, ![p].recent = recent]
          /\ requests' = (<<e, k>> :> recent) @@ requests
    /\ UNCHANGED <<limits, windows, last_cleanup, lock, clock, setter, decorated,
                   admitted, issued, last, pricing, intake, shipping, script>>

(* lines 85-91: append now and allow, or deny with retry_after; recent[0] of *)
(* an empty list is an IndexError. The with block releases the lock.        *)
Admit(p, history) ==
    /\ thr[p].pc = "admit"
    /\ LET e == thr[p].endpoint
           k == thr[p].key
           t == thr[p]
       IN IF UnderLimit(t.recent, t.max_requests)
          THEN /\ requests' = [requests EXCEPT ![<<e, k>>] = Append(@, t.now)]
               /\ Returns(p, [t EXCEPT !.allowed = TRUE, !.retry = None])
               /\ admitted' = IF history
                              THEN (<<e, k>> :> Append(
                                       IF <<e, k>> \in DOMAIN admitted
                                       THEN admitted[<<e, k>>] ELSE <<>>, t.now))
                                   @@ admitted
                              ELSE admitted
          ELSE IF t.recent = <<>>
          THEN /\ Raises(p, t, "IndexError")
               /\ UNCHANGED <<requests, admitted>>
          ELSE /\ Returns(p, [t EXCEPT !.allowed = FALSE,
                                !.retry = RetryAfter(t.window, t.now, t.recent[1])])
               /\ UNCHANGED <<requests, admitted>>
    /\ lock' = 0
    /\ UNCHANGED <<limits, windows, last_cleanup, clock, setter, decorated, issued,
                   pricing, intake, shipping, script>>

(* a wrapper whose denial branch does not return: the handler runs anyway *)
RespondFallsThrough(p) ==
    /\ thr[p].pc = "returned"
    /\ thr' = [thr EXCEPT ![p] = IdleThread]
    /\ last' = Ended(p, [thr[p] EXCEPT !.pc = "responded", !.status = 200,
                                       !.handler_ran = TRUE])
    /\ UNCHANGED <<limits, windows, requests, last_cleanup, lock, clock, setter,
                   decorated, admitted, issued, pricing, intake, shipping, script>>

(* decorated_function, lines 119-128: a 429 response, or the handler runs *)
Respond(p) ==
    /\ thr[p].pc = "returned"
    /\ thr' = [thr EXCEPT ![p] = IdleThread]
    /\ last' = Ended(p, IF ~ thr[p].allowed
                        THEN [thr[p] EXCEPT !.pc = "responded", !.status = 429,
                                            !.body_retry = thr[p].retry]
                        ELSE [thr[p] EXCEPT !.pc = "responded", !.status = 200,
                                            !.handler_ran = TRUE])
    /\ UNCHANGED <<limits, windows, requests, last_cleanup, lock, clock, setter,
                   decorated, admitted, issued, pricing, intake, shipping, script>>

----------------------------------------------------------------------------
(* The limiter with rules registered by set_limit while is_allowed is    *)
(* being called: one registering thread, one request thread, one key,    *)
(* two rules to register; the clock moves in whole seconds               *)

RaceThreads == {1}
RaceKeys == {"global"}
RaceRules == {<<1, 1>>, <<2, 2>>}

Next ==
    \/ Advance(TicksPerSec)
    \/ \E e \in Endpoints, r \in RaceRules : SetLimitCall(e, r[1], r[2])
    \/ SetLimitLine42
    \/ \E p \in RaceThreads, e \in Endpoints, k \in RaceKeys : CallIsAllowed(p, e, k)
    \/ \E p \in RaceThreads : Acquire(p)
    \/ \E p \in RaceThreads : Check(p)
    \/ \E p \in RaceThreads : Prune(p)
    \/ \E p \in RaceThreads : Admit(p, FALSE)

Spec == Init /\ [][Next]_vars

----------------------------------------------------------------------------
(* Handlers wrapped by limit(), serving requests; the clock moves in      *)
(* whole seconds                                                          *)

DecoratorLimits == {1}

NextWrapped ==
    \/ Advance(TicksPerSec)
    \/ \E e \in Endpoints, m \in DecoratorLimits, u \in BOOLEAN : LimitCall(e, m, u)
    \/ SetLimitLine42
    \/ \E p \in Threads, e \in Endpoints, a \in RemoteAddrs : DecoratedRequest(p, e, a)
    \/ \E p \in Threads : Acquire(p)
    \/ \E p \in Threads : Check(p)
    \/ \E p \in Threads : Prune(p)
    \/ \E p \in Threads : Admit(p, FALSE)
    \/ \E p \in Threads : Respond(p)

SpecWrapped == Init /\ [][NextWrapped]_vars

----------------------------------------------------------------------------
(* The limiter with its rules registered at startup and left alone: the    *)
(* rule of price-lookup is any of the argument values, telegram-webhook    *)
(* has no rule. Every admitted timestamp is kept in admitted.              *)

InitFixed ==
    /\ \E m \in MaxRequestsArgs, w \in WindowArgs :
          /\ limits = [e \in Endpoints |-> IF e = "price-lookup" THEN m ELSE Absent]
          /\ windows = [e \in Endpoints |-> IF e = "price-lookup" THEN w ELSE Absent]
    /\ requests = <<>>
    /\ last_cleanup = 0
    /\ lock = 0
    /\ clock = 0
    /\ thr = [p \in Threads |-> IdleThread]
    /\ last = NoCall
    /\ setter = IdleSetter
    /\ decorated = [e \in Endpoints |-> "none"]
    /\ admitted = <<>>
    /\ issued = [calls |-> 0, set_limits |-> 0]
    /\ script = NoScript
    /\ InitPricing
    /\ InitIntake
    /\ InitShipping

NextFixed ==
    \/ Advance(1)
    \/ \E p \in Threads, e \in Endpoints, k \in DirectKeys : CallIsAllowed(p, e, k)
    \/ \E p \in Threads : Acquire(p)
    \/ \E p \in Threads : Check(p)
    \/ \E p \in Threads : Prune(p)
    \/ \E p \in Threads : Admit(p, TRUE)

SpecFixed == InitFixed /\ [][NextFixed]_vars

----------------------------------------------------------------------------
(* Claims about is_allowed under a fixed rule (SpecFixed) *)

History(e, k) == IF <<e, k>> \in DOMAIN admitted THEN admitted[<<e, k>>] ELSE <<>>

(* the number of requests of (e, k) admitted with a timestamp in (t - w, t] *)
AdmittedIn(e, k, t, w) ==
    Cardinality({i \in DOMAIN History(e, k) :
                    History(e, k)[i] > t - Ticks(w) /\ History(e, k)[i] <= t})

(* the last call was evaluated against a rule: it got past line 74 *)
LastUnderRule == last.pc \in {"returned", "responded"} /\ last.window # Absent

(* the admitted timestamps of the last call's pair as they were before it *)
HistoryBeforeLast ==
    LET h == History(last.endpoint, last.key)
    IN IF last.allowed THEN SubSeq(h, 1, Len(h) - 1) ELSE h

SeqMin(q) == CHOOSE x \in {q[i] : i \in DOMAIN q} : \A j \in DOMAIN q : x <= q[j]

CeilSec(ticks) == (ticks + TicksPerSec - 1) \div TicksPerSec

(* C1: when one slot remains for a pair and a thread takes it, a second   *)
(* thread deciding on the same pair at the same instant finds the log     *)
(* full and is not admitted: the check and the increment of one call are  *)
(* never interleaved with those of another.                               *)
C1_AtMostOneTakesLastSlot ==
    \A q \in Threads :
        ( /\ thr[q].pc = "admit"
          /\ LastUnderRule /\ last.allowed
          /\ last.thread # q
          /\ last.endpoint = thr[q].endpoint /\ last.key = thr[q].key
          /\ last.now = thr[q].now
          /\ last.max_requests = thr[q].max_requests
          /\ Len(last.recent) = last.max_requests - 1 )
        => /\ ~ UnderLimit(thr[q].recent, thr[q].max_requests)
           /\ Len(thr[q].recent) = Len(Log(thr[q].endpoint, thr[q].key))

C1_Witness ==
    \E q \in Threads :
        /\ thr[q].pc = "admit"
        /\ LastUnderRule /\ last.allowed /\ last.concurrent
        /\ last.thread # q
        /\ last.endpoint = thr[q].endpoint /\ last.key = thr[q].key
        /\ last.now = thr[q].now
        /\ Len(last.recent) = last.max_requests - 1
        /\ ~ UnderLimit(thr[q].recent, thr[q].max_requests)

(* C2: under a fixed rule (N, W), for every key and every instant t, at  *)
(* most N requests were admitted with a timestamp in (t - W, t].         *)
C2_SlidingWindowCeiling ==
    \A e \in Endpoints, k \in DirectKeys, t \in 0..MaxTime :
        limits[e] # Absent => AdmittedIn(e, k, t, windows[e]) <= limits[e]

C2_Witness ==
    \E e \in Endpoints, k \in DirectKeys, t \in 0..MaxTime :
        /\ limits[e] # Absent /\ limits[e] >= 1
        /\ AdmittedIn(e, k, t, windows[e]) = limits[e]
        /\ Len(History(e, k)) > limits[e]

(* C3: under a rule (N, W) with N >= 1, a call is allowed while fewer    *)
(* than N requests were admitted; with N admitted it is denied, with     *)
(* retry_after >= 1, as long as the oldest of the last N is inside the   *)
(* window; and it is allowed again once W seconds or more have passed    *)
(* since that oldest timestamp.                                          *)
C3_FillDenyRecover ==
    (LastUnderRule /\ last.max_requests >= 1) =>
        LET h == HistoryBeforeLast
            n == Len(h)
            N == last.max_requests
        IN /\ n < N => last.allowed
           /\ (n >= N /\ last.now - h[n - N + 1] < Ticks(last.window))
                 => (~ last.allowed /\ last.retry >= 1)
           /\ (n >= N /\ last.now - h[n - N + 1] >= Ticks(last.window))
                 => last.allowed

C3_Witness ==
    /\ LastUnderRule /\ last.max_requests >= 1 /\ last.allowed
    /\ Len(HistoryBeforeLast) >= last.max_requests
    /\ last.now - HistoryBeforeLast[Len(HistoryBeforeLast) - last.max_requests + 1]
          = Ticks(last.window)

(* the remaining time of the oldest surviving timestamp of the last call, *)
(* window - (now - oldest), in ticks; oldest taken from the history       *)
LastDenied == LastUnderRule /\ ~ last.allowed
LastOldest ==
    SeqMin(SelectSeq(History(last.endpoint, last.key),
                     LAMBDA t : t > last.now - Ticks(last.window)))
LastRemaining == Ticks(last.window) - (last.now - LastOldest)

(* C4 as stated: a denial returns ceil(window - (now - oldest)), at least 1 *)
C4_RetryIsCeil ==
    LastDenied => (last.retry = CeilSec(LastRemaining) /\ last.retry >= 1)

(* C4, amended: a denial returns floor(window - (now - oldest)) + 1, which *)
(* is at least 1, equals the ceiling unless the remaining time is a whole  *)
(* number of seconds, and is then one second more than the ceiling.        *)
C4_RetryIsFloorPlusOne ==
    LastDenied =>
        /\ LastRemaining > 0
        /\ last.retry = (LastRemaining \div TicksPerSec) + 1
        /\ last.retry >= 1
        /\ LastRemaining % TicksPerSec # 0 => last.retry = CeilSec(LastRemaining)
        /\ LastRemaining % TicksPerSec = 0 => last.retry = CeilSec(LastRemaining) + 1

C4_Witness ==
    /\ LastDenied
    /\ LastRemaining % TicksPerSec = 0
    /\ last.retry = CeilSec(LastRemaining) + 1

(* C8 as stated: is_allowed always returns a pair, also under a rule with *)
(* max_requests = 0 and an empty log; it never fails.                     *)
C8_Total ==
    /\ last.pc # "raised"
    /\ LastDenied => last.retry >= 1

----------------------------------------------------------------------------
(* Claims about registration racing with is_allowed (Spec) *)

(* C5: a call for an endpoint with no registered rule returns            *)
(* (allowed = true, retry_after = none), whatever was called before, and *)
(* records nothing for its pair.                                         *)
C5_NoRuleAlwaysAllowed ==
    (last.pc # "none" /\ limits[last.endpoint] = Absent) =>
        /\ last.pc = "returned"
        /\ last.allowed
        /\ last.retry = None
        /\ <<last.endpoint, last.key>> \notin DOMAIN requests

C5_Witness ==
    /\ last.pc = "returned" /\ limits[last.endpoint] = Absent
    /\ last.allowed /\ last.retry = None
    /\ issued.calls >= 2
    /\ \E pair \in DOMAIN requests : requests[pair] # <<>>

(* the endpoint a step of set_limit is registering *)
SetLimitStep == setter' # setter
SetLimitEndpoint == IF setter.pc = "idle" THEN setter'.endpoint ELSE setter.endpoint

(* C6: a step of set_limit leaves every recorded timestamp and the rules  *)
(* of the other endpoints as they are; its second write completes the new *)
(* rule; registering the rule that is already there changes nothing; and  *)
(* a call of is_allowed that meets one rule only is pruned and counted    *)
(* against exactly that rule.                                             *)
C6_SetLimitReplacesRuleOnly ==
    /\ [][SetLimitStep =>
            LET e == SetLimitEndpoint IN
            /\ requests' = requests
            /\ \A o \in Endpoints \ {e} :
                  limits'[o] = limits[o] /\ windows'[o] = windows[o]
            /\ setter'.pc = "line42" => windows'[e] = windows[e]
            /\ setter'.pc = "idle" =>
                  /\ limits'[e] = limits[e]
                  /\ windows'[e] = setter.window
                  /\ (setter.old_max = limits[e] /\ windows[e] = setter.window)
                        => (limits' = limits /\ windows' = windows)
         ]_vars
    /\ [](\A p \in Threads :
            (thr[p].pc = "admit" /\ Cardinality(thr[p].complete) = 1) =>
                /\ <<thr[p].max_requests, thr[p].window>> \in thr[p].complete
                /\ \A i \in DOMAIN thr[p].recent :
                      thr[p].recent[i] > thr[p].now - Ticks(thr[p].window)
                /\ Log(thr[p].endpoint, thr[p].key) = thr[p].recent)

C6_Witness ==
    \E p \in Threads :
        /\ thr[p].pc = "admit"
        /\ setter.pc = "idle"
        /\ Cardinality(thr[p].complete) = 2
        /\ limits[thr[p].endpoint] = thr[p].max_requests
        /\ windows[thr[p].endpoint] = thr[p].window
        /\ thr[p].recent # <<>>
        /\ \A o \in Endpoints : limits[o] # Absent /\ windows[o] # Absent

(* C7 as stated: a call of is_allowed concurrent with set_limit never fails *)
(* on a partly registered rule and is evaluated against a complete rule,    *)
(* the one set_limit replaces or the one it writes, never a mixture.        *)
C7_RegistrationSerialized ==
    /\ ~ (last.pc = "raised" /\ last.exc = "KeyError")
    /\ \A p \in Threads :
          thr[p].pc = "admit" =>
              <<thr[p].max_requests, thr[p].window>> \in thr[p].complete

----------------------------------------------------------------------------
(* Claims about handlers wrapped by limit() (SpecWrapped) *)

(* C9: a wrapped handler consults is_allowed once per request, before any *)
(* handler logic; the handler runs iff the call allowed; a denial is      *)
(* answered 429 with the call's retry_after and the handler does not run; *)
(* without per-user limiting the key is 'global' for every caller.        *)
C9_WrapperGatesHandler ==
    /\ \A p \in Threads :
          /\ thr[p].pc # "idle" =>
                (thr[p].consults = 1 /\ ~ thr[p].handler_ran /\ thr[p].status = 0)
          /\ (thr[p].pc # "idle" /\ decorated[thr[p].endpoint] = "global")
                => thr[p].key = "global"
    /\ last.pc = "responded" =>
          /\ last.consults = 1
          /\ last.handler_ran <=> last.allowed
          /\ last.allowed => (last.status = 200 /\ last.body_retry = None)
          /\ ~ last.allowed =>
                (last.status = 429 /\ last.body_retry = last.retry /\ last.retry >= 1)
          /\ decorated[last.endpoint] = "global" => last.key = "global"

C9_Witness ==
    /\ last.pc = "responded"
    /\ decorated[last.endpoint] = "global"
    /\ last.status = 429 /\ ~ last.handler_ran
    /\ last.body_retry >= 1
    /\ last.concurrent

----------------------------------------------------------------------------
(* Python float arithmetic (IEEE 754 binary64, round to nearest, ties to   *)
(* even).  A natural number of any size is a sequence of limbs, least      *)
(* significant first, without leading zero limbs; <<>> is 0.               *)

Limb == 2^15

RECURSIVE BigTrim(_)
BigTrim(N) ==
    IF N = <<>> THEN <<>>
    ELSE IF N[Len(N)] = 0 THEN BigTrim(SubSeq(N, 1, Len(N) - 1)) ELSE N

RECURSIVE BigFromInt(_)
BigFromInt(n) == IF n = 0 THEN <<>> ELSE <<n % Limb>> \o BigFromInt(n \div Limb)

RECURSIVE BigToInt(_)
BigToInt(N) == IF N = <<>> THEN 0 ELSE N[1] + Limb * BigToInt(Tail(N))

BigRest(N) == IF N = <<>> THEN <<>> ELSE Tail(N)
BigLow(N) == IF N = <<>> THEN 0 ELSE N[1]

RECURSIVE BigAddCarry(_, _, _)
BigAddCarry(N, M, carry) ==
    IF N = <<>> /\ M = <<>> THEN BigFromInt(carry)
    ELSE LET t == BigLow(N) + BigLow(M) + carry
         IN <<t % Limb>> \o BigAddCarry(BigRest(N), BigRest(M), t \div Limb)

BigAdd(N, M) == BigAddCarry(N, M, 0)

(* N - M for N >= M *)
RECURSIVE BigSubBorrow(_, _, _)
BigSubBorrow(N, M, borrow) ==
    IF N = <<>> THEN <<>>
    ELSE LET t == N[1] - BigLow(M) - borrow
         IN IF t < 0 THEN <<t + Limb>> \o BigSubBorrow(Tail(N), BigRest(M), 1)
            ELSE <<t>> \o BigSubBorrow(Tail(N), BigRest(M), 0)

BigSub(N, M) == BigTrim(BigSubBorrow(N, M, 0))

(* -1, 0 or 1 as N is below, equal to or above M *)
RECURSIVE BigCmpSameLen(_, _)
BigCmpSameLen(N, M) ==
    IF N = <<>> THEN 0
    ELSE IF N[Len(N)] < M[Len(M)] THEN 0 - 1
    ELSE IF N[Len(N)] > M[Len(M)] THEN 1
    ELSE BigCmpSameLen(SubSeq(N, 1, Len(N) - 1), SubSeq(M, 1, Len(M) - 1))

BigCmp(N, M) ==
    IF Len(N) < Len(M) THEN 0 - 1
    ELSE IF Len(N) > Len(M) THEN 1
    ELSE BigCmpSameLen(N, M)

(* N * c + carry for a c below Limb *)
RECURSIVE BigMulSmallCarry(_, _, _)
BigMulSmallCarry(N, c, carry) ==
    IF N = <<>> THEN BigFromInt(carry)
    ELSE LET t == N[1] * c + carry
         IN <<t % Limb>> \o BigMulSmallCarry(Tail(N), c, t \div Limb)

BigMulSmall(N, c) == BigTrim(BigMulSmallCarry(N, c, 0))

BigShiftLimb(N) == IF N = <<>> THEN <<>> ELSE <<0>> \o N

RECURSIVE BigMul(_, _)
BigMul(N, M) ==
    IF M = <<>> \/ N = <<>> THEN <<>>
    ELSE BigAdd(BigMulSmall(N, M[1]), BigShiftLimb(BigMul(N, Tail(M))))

(* quotient and remainder of N by a d of at most Limb *)
RECURSIVE BigDivSmallRaw(_, _)
BigDivSmallRaw(N, d) ==
    IF N = <<>> THEN [q |-> <<>>, r |-> 0]
    ELSE LET hi == BigDivSmallRaw(Tail(N), d)
             t == hi.r * Limb + N[1]
         IN [q |-> <<t \div d>> \o hi.q, r |-> t % d]

BigDivSmall(N, d) ==
    LET raw == BigDivSmallRaw(N, d) IN [q |-> BigTrim(raw.q), r |-> raw.r]

RECURSIVE BigShiftLeft(_, _)
BigShiftLeft(N, k) ==
    IF k >= 15 THEN BigShiftLimb(BigShiftLeft(N, k - 15)) ELSE BigMulSmall(N, 2^k)

(* N shifted right by k bits, and whether a 1 bit was shifted out *)
RECURSIVE BigShiftRight(_, _)
BigShiftRight(N, k) ==
    IF N = <<>> THEN [q |-> <<>>, sticky |-> FALSE]
    ELSE IF k >= 15
         THEN LET hi == BigShiftRight(Tail(N), k - 15)
              IN [q |-> hi.q, sticky |-> hi.sticky \/ N[1] # 0]
         ELSE LET dv == BigDivSmall(N, 2^k) IN [q |-> dv.q, sticky |-> dv.r # 0]

RECURSIVE SmallBitLen(_)
SmallBitLen(n) == IF n = 0 THEN 0 ELSE 1 + SmallBitLen(n \div 2)

BigBitLen(N) == IF N = <<>> THEN 0 ELSE 15 * (Len(N) - 1) + SmallBitLen(N[Len(N)])

BigOdd(N) == BigLow(N) % 2 = 1

(* A float is sign * m * 2^e with 2^52 <= m < 2^53, or zero.  Money never  *)
(* leaves the normal range, so subnormals, infinities and NaN do not occur. *)

FloatZero == [sign |-> 0, m |-> <<>>, e |-> 0]

(* the float nearest to sign * (N * 2^e), or to a value just above N * 2^e *)
(* when sticky; a caller that passes sticky gives N at least 55 bits       *)
(* the rounded significand q1 of 53 or 54 bits, brought back to 53 bits *)
FloatRoundCarry(sign, q1, e) ==
    IF BigBitLen(q1) = 54
    THEN [sign |-> sign, m |-> BigDivSmall(q1, 2).q, e |-> e + 1]
    ELSE [sign |-> sign, m |-> q1, e |-> e]

(* q54 holds 54 bits, the last one the half bit; q is q54 without it; the  *)
(* half rounds up when something follows it or q is odd                    *)
FloatRoundHalf(sign, q54, q, sticky, e) ==
    FloatRoundCarry(sign,
                    IF BigOdd(q54) /\ (sticky \/ BigOdd(q)) THEN BigAdd(q, <<1>>) ELSE q,
                    e)

(* N of len bits *)
FloatRoundBits(sign, N, e, sticky, len, sh) ==
    IF len <= 53
    THEN [sign |-> sign, m |-> BigShiftLeft(N, 53 - len), e |-> e - (53 - len)]
    ELSE FloatRoundHalf(sign, sh.q, BigDivSmall(sh.q, 2).q, sticky \/ sh.sticky,
                        e + (len - 53))

FloatRoundLen(sign, N, e, sticky, len) ==
    FloatRoundBits(sign, N, e, sticky, len,
                   IF len <= 53 THEN [q |-> N, sticky |-> FALSE]
                   ELSE BigShiftRight(N, len - 54))

FloatRound(sign, N, e, sticky) ==
    IF N = <<>> THEN FloatZero ELSE FloatRoundLen(sign, N, e, sticky, BigBitLen(N))

(* the float a decimal literal or a parsed decimal string n / d denotes    *)
FloatOfQuotient(dv) == FloatRound(1, dv.q, 0 - 75, dv.r # 0)

FloatOfRatio(n, d) ==
    IF n = 0 THEN FloatZero
    ELSE FloatOfQuotient(BigDivSmall(BigShiftLeft(BigFromInt(n), 75), d))

FloatOfCents(cents) == FloatOfRatio(cents, 100)

FloatMul(a, b) ==
    IF a.sign = 0 \/ b.sign = 0 THEN FloatZero
    ELSE FloatRound(a.sign * b.sign, BigMul(a.m, b.m), a.e + b.e, FALSE)

FloatNeg(a) == [a EXCEPT !.sign = 0 - a.sign]

(* the sum of the significands A and B of a and b at the exponent e *)
FloatAddAligned(a, b, A, B, e, c) ==
    IF a.sign # b.sign /\ c = 0 THEN FloatZero
    ELSE FloatRound(IF a.sign = b.sign \/ c > 0 THEN a.sign ELSE b.sign,
                    IF a.sign = b.sign THEN BigAdd(A, B)
                    ELSE IF c > 0 THEN BigSub(A, B) ELSE BigSub(B, A),
                    e, FALSE)

FloatAddShifted(a, b, A, B, e) == FloatAddAligned(a, b, A, B, e, BigCmp(A, B))

FloatAddExp(a, b, e) ==
    FloatAddShifted(a, b, BigShiftLeft(a.m, a.e - e), BigShiftLeft(b.m, b.e - e), e)

FloatAdd(a, b) ==
    IF a.sign = 0 THEN b
    ELSE IF b.sign = 0 THEN a
    ELSE FloatAddExp(a, b, IF a.e < b.e THEN a.e ELSE b.e)

FloatSub(a, b) == FloatAdd(a, FloatNeg(b))

(* -1, 0 or 1 as a is below, equal to or above b; no rounding *)
FloatCmp(a, b) ==
    IF a.sign # b.sign THEN (IF a.sign < b.sign THEN 0 - 1 ELSE 1)
    ELSE IF a.sign = 0 THEN 0
    ELSE LET e == IF a.e < b.e THEN a.e ELSE b.e
         IN a.sign * BigCmp(BigShiftLeft(a.m, a.e - e), BigShiftLeft(b.m, b.e - e))

FloatGe(a, b) == FloatCmp(a, b) >= 0
FloatLt(a, b) == FloatCmp(a, b) < 0

FloatMax(a, b) == IF FloatCmp(b, a) > 0 THEN b ELSE a

(* floor(a * scale + 1/2) for a float a >= 0 and a small natural scale,    *)
(* computed without rounding                                               *)
ExactHalfUp(a, scale) ==
    IF a.sign = 0 THEN 0
    ELSE LET N == BigMulSmall(a.m, 2 * scale)
         IN IF a.e >= 0
            THEN BigToInt(BigDivSmall(BigAdd(BigShiftLeft(N, a.e), <<1>>), 2).q)
            ELSE BigToInt(BigShiftRight(BigAdd(N, BigShiftLeft(<<1>>, 0 - a.e)),
                                        1 - a.e).q)

(* sh is twice the value with its fraction dropped (sticky: there was a    *)
(* fraction), k the whole part of the value                                *)
ExactHalfEvenOf(sh, k) ==
    IF BigOdd(sh.q) /\ (sh.sticky \/ k % 2 = 1) THEN k + 1 ELSE k

ExactHalfEvenShifted(sh) == ExactHalfEvenOf(sh, BigToInt(BigDivSmall(sh.q, 2).q))

(* N is the significand of a times 2 * scale *)
ExactHalfEvenDoubled(a, N) ==
    ExactHalfEvenShifted(IF a.e >= 0 THEN [q |-> BigShiftLeft(N, a.e), sticky |-> FALSE]
                         ELSE BigShiftRight(N, 0 - a.e))

(* the nearest whole number to a * scale, ties to even, for a float a >= 0 *)
ExactHalfEven(a, scale) ==
    IF a.sign = 0 THEN 0
    ELSE ExactHalfEvenDoubled(a, BigMulSmall(a.m, 2 * scale))

(* Decimal(str(x)).quantize(Decimal('0.01'), rounding=ROUND_HALF_UP), in   *)
(* cents, for x >= 0.  str gives the shortest decimal that reads back as   *)
(* x: when x is the float of a tie k.5 cents that decimal is the tie and   *)
(* rounds up, otherwise it lies on the same side of every tie as x does.   *)
QuantizeHalfUpOf(x, k) == IF x = FloatOfRatio(2 * k + 1, 200) THEN k + 1 ELSE k

QuantizeHalfUp(x) == QuantizeHalfUpOf(x, ExactHalfUp(x, 100))

(* round(x, 2), in cents: the exact value of x, ties to even *)
PyRound2(x) == ExactHalfEven(x, 100)

----------------------------------------------------------------------------
(* PriceCalculator                                                         *)
(*                                                                         *)
(* Prices are Python floats.  Inputs are written in cents (a median price, *)
(* a cost of goods) or in percent (a markup) and become the float that the *)
(* decimal literal denotes.                                                *)

MediaTypes == {"video_game", "dvd", "music_cd", "book"}
Conditions == {"New", "Very Good", "Acceptable"}
CogCents == {0, 100, 127}
SampleMedianCents == {0, 200, 457, 3500}
MatrixMarkups == <<5, 10, 15, 20>>

SHIPPING_COST == ("video_game" :> 0) @@ ("dvd" :> 350) @@ ("music_cd" :> 350)

(* int(x) for a float x >= 0 *)
FloatTrunc(a) ==
    IF a.sign = 0 THEN 0
    ELSE IF a.e >= 0 THEN BigToInt(BigShiftLeft(a.m, a.e))
    ELSE BigToInt(BigShiftRight(a.m, 0 - a.e).q)

PriceCalculator(media_type, condition, cog) ==
    [media_type |-> media_type, condition |-> condition, cog |-> FloatOfCents(cog),
     median_price |-> None, research_log |-> <<>>]

get_weight(self) ==
    IF self.condition \in {"New", "Very Good"}
    THEN IF self.media_type = "video_game" THEN WEIGHT_VIDEO_GAME
         ELSE IF self.media_type = "dvd" THEN WEIGHT_DVD ELSE WEIGHT_CD
    ELSE WEIGHT_DISC_ONLY

get_shipping_cost(self) ==
    FloatOfCents(IF self.media_type \in DOMAIN SHIPPING_COST
                 THEN SHIPPING_COST[self.media_type] ELSE DefaultShippingCost)

(* a list price without its floor *)
calculate_list_price_unfloored(median_price, markup) ==
    FloatMul(median_price, FloatAdd(FloatOfCents(100), markup))

(* price = median_price * (1 + markup); return max(price, MIN_LIST_PRICE) *)
calculate_list_price(median_price, markup) ==
    FloatMax(FloatMul(median_price, FloatAdd(FloatOfCents(100), markup)),
             FloatOfCents(MIN_LIST_PRICE))

(* the two thresholds with their percentages exchanged *)
OfferThresholdExchanged(list_price, percent) ==
    QuantizeHalfUp(FloatMul(list_price, FloatOfRatio(150 - percent, 100)))

(* Decimal(str(list_price * 0.80)).quantize(Decimal('0.01'), ROUND_HALF_UP), *)
(* in cents                                                                *)
OfferThreshold(list_price, percent) ==
    QuantizeHalfUp(FloatMul(list_price, FloatOfRatio(percent, 100)))

(* the profit with the shipping cost left out *)
OfferProfitNoShipping(self, threshold) ==
    FloatSub(FloatOfCents(threshold), self.cog)

(* float(auto_accept) - self.cog - self.get_shipping_cost() *)
OfferProfit(self, threshold) ==
    FloatSub(FloatSub(FloatOfCents(threshold), self.cog), get_shipping_cost(self))

(* the returned dict; warned is the set of warnings the call logs *)
OffersDict(auto_accept, minimum, profit_auto, profit_min) ==
    [auto_accept |-> FloatOfCents(auto_accept),
     minimum |-> FloatOfCents(minimum),
     profit_auto_accept |-> profit_auto,
     profit_minimum |-> profit_min,
     warned |-> (IF FloatLt(profit_auto, FloatOfCents(MIN_PROFIT_MARGIN))
                 THEN {"auto_accept"} ELSE {})
                \cup (IF FloatLt(profit_min, FloatOfCents(MIN_PROFIT_MARGIN))
                      THEN {"minimum"} ELSE {})]

(* profit_auto and profit_min of the two thresholds *)
OffersOf(self, auto_accept, minimum) ==
    OffersDict(auto_accept, minimum, OfferProfit(self, auto_accept),
               OfferProfit(self, minimum))

calculate_best_offer_prices(self, list_price) ==
    OffersOf(self, OfferThreshold(list_price, 80), OfferThreshold(list_price, 70))

(* a scenario that shows the list price it was computed from, unrounded *)
ScenarioListPriceUnrounded(list_price) == list_price

(* round(list_price, 2) *)
ScenarioListPrice(list_price) == FloatOfCents(PyRound2(list_price))

(* one pass of the loop over [0.05, 0.10, 0.15, 0.20] *)
ScenarioDict(markup, median, list_price, offers) ==
    [markup_percent |-> FloatTrunc(FloatMul(markup, FloatOfCents(10000))),
     median_price |-> median,
     list_price |-> ScenarioListPrice(list_price),
     best_offers |-> offers,
     margin_check |-> FloatGe(offers.profit_auto_accept,
                              FloatOfCents(MIN_PROFIT_MARGIN))]

(* offers = self.calculate_best_offer_prices(list_price) *)
ScenarioOffers(self, markup, median, list_price) ==
    ScenarioDict(markup, median, list_price,
                 calculate_best_offer_prices(self, list_price))

(* list_price = self.calculate_list_price(median, markup) *)
ScenarioPriced(self, markup, median) ==
    ScenarioOffers(self, markup, median, calculate_list_price(median, markup))

Scenario(self, median_prices, percent) ==
    ScenarioPriced(self, FloatOfRatio(percent, 100),
                   IF median_prices # <<>> THEN FloatOfCents(median_prices[1])
                   ELSE FloatZero)

generate_pricing_matrix(self, median_prices) ==
    [media_type |-> self.media_type,
     condition |-> self.condition,
     cog |-> self.cog,
     weight_oz |-> get_weight(self),
     shipping_cost |-> get_shipping_cost(self),
     scenarios |-> [i \in 1..Len(MatrixMarkups) |->
                      Scenario(self, median_prices, MatrixMarkups[i])]]

(* a calculator that adds a dollar to its cost of goods at every call *)
SelfChargingCog(self) == [self EXCEPT !.cog = FloatAdd(@, FloatOfCents(100))]

(* no statement of lines 96-194 assigns to an attribute of self *)
SelfAfterCall(self) == self

PricingInputs ==
    {[media_type |-> "dvd", condition |-> "Acceptable", cog |-> 100,
      median |-> m, markup |-> k, median_prices |-> <<m>>] :
        m \in {0} \cup (MinMedianCents..MaxMedianCents), k \in Markups}
    \cup
    UNION {{[media_type |-> mt, condition |-> c, cog |-> g,
             median |-> m, markup |-> 10, median_prices |-> mp] :
               mt \in MediaTypes, c \in Conditions, g \in CogCents,
               mp \in {<<>>, <<m>>, <<m, 0>>}} :
           m \in SampleMedianCents}

NoOffers == [auto_accept |-> FloatZero, minimum |-> FloatZero,
             profit_auto_accept |-> FloatZero, profit_minimum |-> FloatZero,
             warned |-> {}]

NoMatrix == [scenarios |-> <<>>]

NoResults == [list_price |-> FloatZero, offers |-> NoOffers, matrix |-> NoMatrix]

(* a calculator has been constructed and a caller holds its arguments *)
InitCalculator ==
    /\ limits = [e \in Endpoints |-> Absent]
    /\ windows = [e \in Endpoints |-> Absent]
    /\ requests = <<>>
    /\ last_cleanup = 0
    /\ lock = 0
    /\ clock = 0
    /\ thr = [p \in Threads |-> IdleThread]
    /\ last = NoCall
    /\ setter = IdleSetter
    /\ decorated = [e \in Endpoints |-> "none"]
    /\ admitted = <<>>
    /\ issued = [calls |-> 0, set_limits |-> 0]
    /\ script = NoScript
    /\ InitIntake
    /\ InitShipping
    /\ \E in \in PricingInputs :
          pricing = [pc |-> "called", round |-> 0,
                     self |-> PriceCalculator(in.media_type, in.condition, in.cog),
                     cog |-> in.cog,
                     median |-> in.median, markup |-> in.markup,
                     median_prices |-> in.median_prices,
                     list_price |-> FloatZero, offers |-> NoOffers,
                     matrix |-> NoMatrix, first |-> NoResults]

PricingFrame ==
    UNCHANGED <<limits, windows, requests, last_cleanup, lock, clock, thr, last,
                setter, decorated, admitted, issued, intake, shipping, script>>

(* list_price = calc.calculate_list_price(median, markup); a later round   *)
(* repeats the calls of the first with the same arguments                  *)
CalculateListPrice ==
    /\ \/ pricing.pc = "called"
       \/ pricing.pc = "matrix" /\ pricing.round < MaxPricingRounds
    /\ pricing' = [pricing EXCEPT
                     !.pc = "list_price",
                     !.round = @ + 1,
                     !.self = SelfAfterCall(@),
                     !.list_price = calculate_list_price(FloatOfCents(pricing.median),
                                                         FloatOfRatio(pricing.markup, 100)),
                     !.first = IF pricing.round = 1
                               THEN [list_price |-> pricing.list_price,
                                     offers |-> pricing.offers,
                                     matrix |-> pricing.matrix]
                               ELSE @]
    /\ PricingFrame

(* offers = calc.calculate_best_offer_prices(list_price) *)
CalculateBestOfferPrices ==
    /\ pricing.pc = "list_price"
    /\ pricing' = [pricing EXCEPT
                     !.pc = "offers",
                     !.self = SelfAfterCall(@),
                     !.offers = calculate_best_offer_prices(pricing.self,
                                                            pricing.list_price)]
    /\ PricingFrame

(* matrix = calc.generate_pricing_matrix(median_prices) *)
GeneratePricingMatrix ==
    /\ pricing.pc = "offers"
    /\ pricing' = [pricing EXCEPT
                     !.pc = "matrix",
                     !.self = SelfAfterCall(@),
                     !.matrix = generate_pricing_matrix(pricing.self,
                                                        pricing.median_prices)]
    /\ PricingFrame

NextPricing ==
    \/ CalculateListPrice
    \/ CalculateBestOfferPrices
    \/ GeneratePricingMatrix

SpecPricing == InitCalculator /\ [][NextPricing]_vars

(* C10: for every median >= 0 and markup >= 0 the list price is the larger *)
(* of median * (1 + markup) and 5.00; it is never below 5.00, also for a   *)
(* median of 0.                                                            *)
C10_ListPriceIsMarkupOrFloor ==
    pricing.pc = "list_price" =>
        LET marked_up == FloatMul(FloatOfCents(pricing.median),
                                  FloatAdd(FloatOfCents(100),
                                           FloatOfRatio(pricing.markup, 100)))
            floor == FloatOfCents(500)
        IN /\ FloatCmp(pricing.list_price, floor) >= 0
           /\ FloatCmp(pricing.list_price, marked_up) >= 0
           /\ pricing.list_price \in {marked_up, floor}

C10_Witness ==
    /\ pricing.pc = "list_price"
    /\ pricing.median = 0
    /\ pricing.list_price = FloatOfCents(500)

(* C11: for a list price that calculate_list_price produced, the offers    *)
(* satisfy minimum <= auto_accept <= list_price.                           *)
C11_OffersOrdered ==
    pricing.pc = "offers" =>
        /\ FloatCmp(pricing.offers.minimum, pricing.offers.auto_accept) <= 0
        /\ FloatCmp(pricing.offers.auto_accept, pricing.list_price) <= 0

C11_Witness ==
    /\ pricing.pc = "offers"
    /\ pricing.list_price = FloatOfCents(500)
    /\ pricing.offers.auto_accept = FloatOfCents(400)
    /\ pricing.offers.minimum = FloatOfCents(350)

(* is_viable = offers['profit_auto_accept'] >= MIN_PROFIT_MARGIN *)
is_viable(offers) ==
    FloatGe(offers.profit_auto_accept, FloatOfCents(MIN_PROFIT_MARGIN))

(* the whole number of cents a two-decimal float stands for *)
CentsOf(a) == ExactHalfEven(a, 100)

(* C12: auto_accept is list_price * 0.80 and minimum is list_price * 0.70, *)
(* each rounded half-up to two decimals: a product whose third decimal is  *)
(* 5 or more rounds up.  The products are taken without rounding.          *)
C12_ThresholdsRoundHalfUp ==
    pricing.pc = "offers" =>
        /\ pricing.offers.auto_accept
              = FloatOfCents(ExactHalfUp(pricing.list_price, 80))
        /\ pricing.offers.minimum
              = FloatOfCents(ExactHalfUp(pricing.list_price, 70))

(* C13: the margin verdict is true exactly when auto_accept - cost of      *)
(* goods - shipping >= 2.75, with the flat shipping cost of the category   *)
(* (video_game 0.00, everything else 3.50) whatever the condition; the     *)
(* minimum-ask profit does not enter; a dvd or music_cd with cost 1.00 at  *)
(* the 5.00 floor has a profit of -0.50 and fails.                         *)
C13_VerdictIsAutoAcceptMargin ==
    pricing.pc = "offers" =>
        LET flat_rate == IF pricing.self.media_type = "video_game" THEN 0 ELSE 350
            auto_accept == CentsOf(pricing.offers.auto_accept)
        IN /\ is_viable(pricing.offers)
                 <=> (auto_accept - pricing.cog - flat_rate >= 275)
           /\ (/\ pricing.self.media_type \in {"dvd", "music_cd"}
               /\ pricing.cog = 100
               /\ pricing.list_price = FloatOfCents(500))
                 => /\ pricing.offers.profit_auto_accept = FloatNeg(FloatOfCents(50))
                    /\ ~ is_viable(pricing.offers)

ScenarioMedian ==
    IF pricing.median_prices = <<>> THEN FloatZero
    ELSE FloatOfCents(pricing.median_prices[1])

(* C14 as the specification states it: four scenarios for 5, 10, 15 and 20 *)
(* percent in that order, each showing the list price, the offers and the  *)
(* margin flag that calculate_list_price and calculate_best_offer_prices   *)
(* give for the median and the markup.                                     *)
C14_ScenariosEqualDirectCalls ==
    pricing.pc = "matrix" =>
        /\ Len(pricing.matrix.scenarios) = 4
        /\ \A i \in 1..4 :
              LET s == pricing.matrix.scenarios[i]
                  percent == <<5, 10, 15, 20>>[i]
                  list_price == calculate_list_price(ScenarioMedian,
                                                     FloatOfRatio(percent, 100))
                  offers == calculate_best_offer_prices(pricing.self, list_price)
              IN /\ s.markup_percent = percent
                 /\ s.list_price = list_price
                 /\ s.best_offers = offers
                 /\ s.margin_check <=> is_viable(offers)

(* C14, amended: as above, but a scenario shows the list price rounded to  *)
(* two decimals, while its offers and its flag are those of the unrounded  *)
(* list price.                                                             *)
C14_ScenariosShowRoundedListPrice ==
    pricing.pc = "matrix" =>
        /\ Len(pricing.matrix.scenarios) = 4
        /\ \A i \in 1..4 :
              LET s == pricing.matrix.scenarios[i]
                  percent == <<5, 10, 15, 20>>[i]
                  list_price == calculate_list_price(ScenarioMedian,
                                                     FloatOfRatio(percent, 100))
                  offers == calculate_best_offer_prices(pricing.self, list_price)
              IN /\ s.markup_percent = percent
                 /\ s.list_price = FloatOfCents(ExactHalfEven(list_price, 100))
                 /\ s.best_offers = offers
                 /\ s.margin_check <=> is_viable(offers)

C14_Witness ==
    /\ pricing.pc = "matrix"
    /\ pricing.median_prices = <<457>>
    /\ pricing.matrix.scenarios[2].list_price = FloatOfCents(503)
    /\ pricing.matrix.scenarios[2].list_price
          # calculate_list_price(FloatOfCents(457), FloatOfRatio(10, 100))
    /\ pricing.matrix.scenarios[2].best_offers.auto_accept = FloatOfCents(402)

----------------------------------------------------------------------------
(* SKU building and condition parsing (price_calculator.build_sku,         *)
(* barcode_intake.SKUGenerator, barcode_intake.ItemClassifier)             *)
(*                                                                         *)
(* A str that the code inspects character by character is a sequence of    *)
(* one-character strings.  A SKU f"{upc}-VG" is the pair <<upc, "-VG">>.   *)

UpperCase == <<"A","B","C","D","E","F","G","H","I","J","K","L","M","N","O","P","Q","R","S","T","U","V","W","X","Y","Z">>
LowerCase == <<"a","b","c","d","e","f","g","h","i","j","k","l","m","n","o","p","q","r","s","t","u","v","w","x","y","z">>
Whitespace == {" ", "\t", "\n"}

LowerChar(ch) ==
    IF \E i \in 1..Len(UpperCase) : UpperCase[i] = ch
    THEN LowerCase[CHOOSE i \in 1..Len(UpperCase) : UpperCase[i] = ch]
    ELSE ch

(* str.lower() *)
str_lower(s) == [i \in 1..Len(s) |-> LowerChar(s[i])]

RECURSIVE str_lstrip(_)
str_lstrip(s) ==
    IF s # <<>> /\ s[1] \in Whitespace THEN str_lstrip(Tail(s)) ELSE s

RECURSIVE str_rstrip(_)
str_rstrip(s) ==
    IF s # <<>> /\ s[Len(s)] \in Whitespace
    THEN str_rstrip(SubSeq(s, 1, Len(s) - 1)) ELSE s

(* a trim of the left end only *)
str_strip_left_only(s) == str_lstrip(s)

(* str.strip() *)
str_strip(s) == str_rstrip(str_lstrip(s))

Upcs == {"045496508234", "012569863147"}

(* the conditions a caller may name; the last two are not conditions of    *)
(* the repository                                                          *)
ConditionNames == {"New", "Very Good", "Acceptable", "Good", "Like New"}

ItemCondition == {"ItemCondition.NEW", "ItemCondition.VERY_GOOD", "ItemCondition.ACCEPTABLE"}

ItemConditionValue ==
    ("ItemCondition.NEW" :> "New") @@ ("ItemCondition.VERY_GOOD" :> "Very Good")
    @@ ("ItemCondition.ACCEPTABLE" :> "Acceptable")

(* the member of ItemCondition with this value, or the value itself when   *)
(* the enumeration has no such member                                      *)
AsItemCondition(name) ==
    IF \E c \in ItemCondition : ItemConditionValue[c] = name
    THEN CHOOSE c \in ItemCondition : ItemConditionValue[c] = name
    ELSE name

ManualConditionStrings ==
    {
     <<"n", "e", "w">>,
     <<"N", "E", "W">>,
     <<" ", "N", "e", "w", " ">>,
     <<"v", "g">>,
     <<"V", "G">>,
     <<"v", "e", "r", "y", " ", "g", "o", "o", "d">>,
     <<"V", "E", "R", "Y", " ", "G", "O", "O", "D">>,
     <<"V", "e", "r", "y", " ", "G", "o", "o", "d", "\n">>,
     <<"a", "c", "c", "e", "p", "t", "a", "b", "l", "e">>,
     <<"A", "c", "c", "e", "p", "t", "a", "b", "l", "e">>,
     <<"d", "i", "s", "c", "-", "o", "n", "l", "y">>,
     <<"D", "i", "s", "c", " ", "O", "n", "l", "y">>,
     <<"\t", "d", "i", "s", "c", " ", "o", "n", "l", "y">>,
     <<"U", "n", "k", "n", "o", "w", "n">>,
     <<"g", "o", "o", "d">>,
     <<"v", "e", "r", "y", " ", " ", "g", "o", "o", "d">>,
     <<" ">>,
     <<>>,
     <<"n", "e", " ", "w">>,
     <<"l", "i", "k", "e", " ", "n", "e", "w">>
    }

NoneArg == [given |-> FALSE, text |-> <<>>]
StrArg(s) == [given |-> TRUE, text |-> s]
Truthy(arg) == arg.given /\ arg.text # <<>>

ImageUrls == {NoneArg, StrArg(<<"h", "t", "t", "p">>)}

(* price_calculator.build_sku *)
build_sku(upc, condition) ==
    IF condition = "New" THEN <<upc, "">>
    ELSE IF condition = "Very Good" THEN <<upc, "-VG">>
    ELSE <<upc, "-A">>

(* SKUGenerator.generate; media_type is not read *)
generate(upc, condition, media_type) ==
    IF condition = "ItemCondition.NEW" THEN <<upc, "">>
    ELSE IF condition = "ItemCondition.VERY_GOOD" THEN <<upc, "-VG">>
    ELSE IF condition = "ItemCondition.ACCEPTABLE" THEN <<upc, "-A">>
    ELSE <<upc, "">>

(* ItemClassifier._parse_condition; warned: the warning was logged *)
parse_condition(condition_str) ==
    LET condition_lower == str_strip(str_lower(condition_str))
    IN IF condition_lower = <<"n", "e", "w">>
       THEN [condition |-> "ItemCondition.NEW", warned |-> FALSE]
       ELSE IF condition_lower \in {<<"v", "e", "r", "y", " ", "g", "o", "o", "d">>,
                                    <<"v", "g">>}
       THEN [condition |-> "ItemCondition.VERY_GOOD", warned |-> FALSE]
       ELSE IF condition_lower \in {<<"a", "c", "c", "e", "p", "t", "a", "b", "l", "e">>,
                                    <<"d", "i", "s", "c", "-", "o", "n", "l", "y">>,
                                    <<"d", "i", "s", "c", " ", "o", "n", "l", "y">>}
       THEN [condition |-> "ItemCondition.ACCEPTABLE", warned |-> FALSE]
       ELSE [condition |-> "ItemCondition.ACCEPTABLE", warned |-> TRUE]

(* ItemClassifier.classify_item; media_analyzer is None *)
classify_item(barcode, image_url, manual_condition) ==
    LET parsed == IF Truthy(manual_condition)
                  THEN parse_condition(manual_condition.text)
                  ELSE [condition |-> "ItemCondition.ACCEPTABLE", warned |-> FALSE]
        source == IF Truthy(manual_condition) THEN "manual"
                  ELSE IF Truthy(image_url) THEN "image_analysis"
                  ELSE "default"
        media_type == "MediaType.UNKNOWN"
    IN [barcode |-> barcode,
        sku |-> generate(barcode, parsed.condition, media_type),
        condition |-> ItemConditionValue[parsed.condition],
        media_type |-> "unknown",
        condition_source |-> source,
        requires_image_analysis |-> TRUE,
        warned |-> parsed.warned]

FreshLimiter ==
    /\ limits = [e \in Endpoints |-> Absent]
    /\ windows = [e \in Endpoints |-> Absent]
    /\ requests = <<>>
    /\ last_cleanup = 0
    /\ lock = 0
    /\ clock = 0
    /\ thr = [p \in Threads |-> IdleThread]
    /\ last = NoCall
    /\ setter = IdleSetter
    /\ decorated = [e \in Endpoints |-> "none"]
    /\ admitted = <<>>
    /\ issued = [calls |-> 0, set_limits |-> 0]
    /\ script = NoScript

NoClassification == [sku |-> <<"", "">>, condition |-> "", condition_source |-> "",
                     warned |-> FALSE]

NoParse == [condition |-> "", warned |-> FALSE]

(* a caller holds a barcode, a condition and the optional arguments of     *)
(* classify_item                                                           *)
InitIntakeCall ==
    /\ FreshLimiter
    /\ InitPricing
    /\ InitShipping
    /\ \E upc \in Upcs, name \in ConditionNames, url \in ImageUrls,
          manual \in {NoneArg} \cup {StrArg(s) : s \in ManualConditionStrings} :
          intake = [pc |-> "called", upc |-> upc, condition |-> name,
                    image_url |-> url, manual_condition |-> manual,
                    built |-> <<"", "">>, generated |-> <<"", "">>,
                    classification |-> NoClassification, parsed |-> NoParse]

IntakeFrame ==
    UNCHANGED <<limits, windows, requests, last_cleanup, lock, clock, thr, last,
                setter, decorated, admitted, issued, pricing, shipping, script>>

(* sku = build_sku(upc, condition) *)
BuildSku ==
    /\ intake.pc = "called"
    /\ intake' = [intake EXCEPT !.pc = "built",
                                !.built = build_sku(intake.upc, intake.condition)]
    /\ IntakeFrame

(* sku = SKUGenerator.generate(upc, condition, media_type) *)
GenerateSku ==
    /\ intake.pc = "built"
    /\ intake' = [intake EXCEPT
                    !.pc = "generated",
                    !.generated = generate(intake.upc, AsItemCondition(intake.condition),
                                           "MediaType.UNKNOWN")]
    /\ IntakeFrame

(* result = classifier.classify_item(barcode, image_url, manual_condition) *)
ClassifyItem ==
    /\ intake.pc = "generated"
    /\ intake' = [intake EXCEPT
                    !.pc = "classified",
                    !.classification = classify_item(intake.upc, intake.image_url,
                                                     intake.manual_condition)]
    /\ IntakeFrame

(* condition = classifier._parse_condition(condition_str) *)
ParseCondition ==
    /\ intake.pc = "classified"
    /\ intake.manual_condition.given
    /\ intake' = [intake EXCEPT
                    !.pc = "parsed",
                    !.parsed = parse_condition(intake.manual_condition.text)]
    /\ IntakeFrame

NextIntake ==
    \/ BuildSku
    \/ GenerateSku
    \/ ClassifyItem
    \/ ParseCondition

SpecIntake == InitIntakeCall /\ [][NextIntake]_vars

SkuSuffix(name) ==
    IF name = "New" THEN "" ELSE IF name = "Very Good" THEN "-VG" ELSE "-A"

(* C16: both SKU builders give the upc for New, upc-VG for Very Good,      *)
(* upc-A for Acceptable and for every unrecognized condition, and so agree *)
(* on every input.                                                         *)
C16_SkuBuildersAgree ==
    intake.pc \in {"generated", "classified", "parsed"} =>
        /\ intake.built = <<intake.upc, SkuSuffix(intake.condition)>>
        /\ intake.generated = <<intake.upc, SkuSuffix(intake.condition)>>
        /\ intake.built = intake.generated

(* s without the blanks before its first and after its last other character *)
Trimmed(s) ==
    LET inked == {i \in 1..Len(s) : s[i] \notin {" ", "\t", "\n"}}
    IN IF inked = {} THEN <<>>
       ELSE SubSeq(s, CHOOSE i \in inked : \A j \in inked : i <= j,
                      CHOOSE i \in inked : \A j \in inked : i >= j)

TrimmedLower(s) == str_lower(Trimmed(s))

ConditionOfText(s) ==
    LET t == TrimmedLower(s)
    IN IF t = <<"n", "e", "w">> THEN "New"
       ELSE IF t = <<"v", "e", "r", "y", " ", "g", "o", "o", "d">> \/ t = <<"v", "g">>
       THEN "Very Good"
       ELSE "Acceptable"

RecognizedText(s) ==
    TrimmedLower(s) \in {<<"n", "e", "w">>,
                         <<"v", "e", "r", "y", " ", "g", "o", "o", "d">>, <<"v", "g">>,
                         <<"a", "c", "c", "e", "p", "t", "a", "b", "l", "e">>,
                         <<"d", "i", "s", "c", "-", "o", "n", "l", "y">>,
                         <<"d", "i", "s", "c", " ", "o", "n", "l", "y">>}

(* C17: parsing a condition string never fails and yields New, Very Good   *)
(* or Acceptable: after trimming and lower-casing, new gives New, very     *)
(* good and vg give Very Good, acceptable, disc-only and disc only give    *)
(* Acceptable, every other string gives Acceptable with a warning; the SKU *)
(* of classify_item carries the suffix of the normalized condition.        *)
C17_ConditionParsingTotal ==
    /\ intake.pc = "parsed" =>
          /\ intake.parsed.condition \in ItemCondition
          /\ ItemConditionValue[intake.parsed.condition]
                = ConditionOfText(intake.manual_condition.text)
          /\ intake.parsed.warned <=> ~ RecognizedText(intake.manual_condition.text)
    /\ intake.pc \in {"classified", "parsed"} =>
          /\ intake.classification.condition \in {"New", "Very Good", "Acceptable"}
          /\ intake.classification.sku
                = <<intake.upc, SkuSuffix(intake.classification.condition)>>
          /\ Truthy(intake.manual_condition) =>
                intake.classification.condition
                   = ConditionOfText(intake.manual_condition.text)

C17_Witness ==
    /\ intake.pc = "parsed"
    /\ intake.manual_condition.text = <<"V", "e", "r", "y", " ", "G", "o", "o", "d", "\n">>
    /\ intake.parsed = [condition |-> "ItemCondition.VERY_GOOD", warned |-> FALSE]
    /\ intake.classification.sku = <<intake.upc, "-VG">>

----------------------------------------------------------------------------
(* ShippingCalculator                                                      *)
(*                                                                         *)
(* Rates and surcharges are floats written in cents; a weight is a float   *)
(* written in whole ounces.                                                *)

ShippingMethod == {"media_mail", "ground_advantage"}
MethodArgs == {"media_mail", "ground_advantage", "priority", "MEDIA_MAIL"}
BASE_RATES == ("media_mail" :> 447) @@ ("ground_advantage" :> 525)
CustomRates == {<<>>, ("media_mail" :> 450)}
Infinity == 0 - 1
WEIGHT_SURCHARGES ==
    << <<16, 0>>, <<32, 50>>, <<48, 100>>, <<64, 150>>, <<128, 200>>, <<Infinity, 300>> >>
SampleWeights ==
    {0 - 1, 0, 1, 15, 16, 17, 31, 32, 33, 47, 48, 49, 63, 64, 65, 127, 128, 129,
     MaxWeightOz}

FloatOfInt(n) ==
    IF n < 0 THEN FloatNeg(FloatOfRatio(0 - n, 1)) ELSE FloatOfRatio(n, 1)

(* ShippingCalculator.__init__ *)
ShippingCalculator(custom_rates) ==
    [rates |-> [m \in ShippingMethod |->
                  IF m \in DOMAIN custom_rates THEN FloatOfCents(custom_rates[m])
                  ELSE FloatOfCents(BASE_RATES[m])]]

(* weight_oz < threshold *)
BelowThreshold(weight_oz, threshold) ==
    threshold = Infinity \/ FloatLt(weight_oz, FloatOfInt(threshold))

(* the loop over WEIGHT_SURCHARGES from its entry i on *)
RECURSIVE SurchargeFrom(_, _)
SurchargeFrom(weight_oz, i) ==
    IF i > Len(WEIGHT_SURCHARGES)
    THEN FloatOfCents(WEIGHT_SURCHARGES[Len(WEIGHT_SURCHARGES)][2])
    ELSE IF BelowThreshold(weight_oz, WEIGHT_SURCHARGES[i][1])
         THEN FloatOfCents(WEIGHT_SURCHARGES[i][2])
         ELSE SurchargeFrom(weight_oz, i + 1)

(* a surcharge that charges the top tier for a weight of zero or less *)
calculate_surcharge_top_for_nothing(weight_oz) ==
    IF FloatCmp(weight_oz, FloatZero) <= 0 THEN FloatOfCents(300)
    ELSE SurchargeFrom(weight_oz, 1)

(* ShippingCalculator.calculate_surcharge *)
calculate_surcharge(weight_oz) ==
    IF FloatCmp(weight_oz, FloatZero) <= 0 THEN FloatZero
    ELSE SurchargeFrom(weight_oz, 1)

(* a lookup that falls back to media_mail *)
ShippingMethodOrMediaMail(method) ==
    IF method \in ShippingMethod THEN method ELSE "media_mail"

(* ShippingMethod(method): the member, or ValueError *)
ShippingMethodOf(method) ==
    IF method \in ShippingMethod THEN method ELSE "ValueError"

NoQuote == [raised |-> "", total |-> FloatZero,
            details |-> [method |-> "", base_rate |-> FloatZero, weight_oz |-> FloatZero,
                         surcharge |-> FloatZero, total |-> FloatZero]]

(* ShippingCalculator.calculate_cost: what it returns, or what it raises *)
(* return total, details *)
QuoteOf(method, base_rate, weight_oz, surcharge, total) ==
    [raised |-> "", total |-> total,
     details |-> [method |-> method, base_rate |-> base_rate,
                  weight_oz |-> weight_oz, surcharge |-> surcharge,
                  total |-> total]]

(* total = round(base_rate + surcharge, 2) *)
QuoteTotal(method, base_rate, weight_oz, surcharge) ==
    QuoteOf(method, base_rate, weight_oz, surcharge,
            FloatOfCents(PyRound2(FloatAdd(base_rate, surcharge))))

(* the quote for a member of ShippingMethod, or the ValueError *)
QuoteFor(self, method, method_enum, weight_oz) ==
    IF method_enum = "ValueError" THEN [NoQuote EXCEPT !.raised = "ValueError"]
    ELSE QuoteTotal(method, self.rates[method_enum], weight_oz,
                    calculate_surcharge(weight_oz))

calculate_cost(self, method, weight_oz) ==
    QuoteFor(self, method, ShippingMethodOf(method), weight_oz)

(* item.get(key, default) *)
ItemGet(item, key, default) == IF key \in DOMAIN item THEN item[key] ELSE default

(* two weights w1 < w2, a method for the quotes, and the items of a bulk   *)
(* estimate: the first carries the method and w1, the second may lack its  *)
(* method                                                                  *)
ShippingInputs ==
    UNION {{[custom_rates |-> c, method |-> m, w1 |-> w1, w2 |-> w2,
             items |-> <<[method |-> m, weight_oz |-> w1], second>>] :
               c \in CustomRates, m \in MethodArgs, w1 \in {w \in SampleWeights : w < w2},
               second \in {[method |-> "ground_advantage", weight_oz |-> w2],
                           [method |-> "priority", weight_oz |-> w2],
                           [weight_oz |-> w2]}} :
           w2 \in SampleWeights}

InitShippingCall ==
    /\ FreshLimiter
    /\ InitPricing
    /\ InitIntake
    /\ \E in \in ShippingInputs :
          shipping = [pc |-> "called", self |-> ShippingCalculator(in.custom_rates),
                      method |-> in.method, w1 |-> in.w1, w2 |-> in.w2,
                      items |-> in.items, quote1 |-> NoQuote, quote2 |-> NoQuote,
                      estimates |-> <<>>, total_cost |-> FloatZero,
                      result |-> [count |-> 0]]

ShippingFrame ==
    UNCHANGED <<limits, windows, requests, last_cleanup, lock, clock, thr, last,
                setter, decorated, admitted, issued, pricing, intake, script>>

(* calc.calculate_cost(method, w1) *)
CalculateCost ==
    /\ shipping.pc = "called"
    /\ shipping' = [shipping EXCEPT
                      !.pc = "quoted",
                      !.quote1 = calculate_cost(shipping.self, shipping.method,
                                                FloatOfInt(shipping.w1))]
    /\ ShippingFrame

(* calc.calculate_cost(method, w2), for the heavier item *)
CalculateCostHeavier ==
    /\ shipping.pc = "quoted"
    /\ shipping' = [shipping EXCEPT
                      !.pc = "quoted_both",
                      !.quote2 = calculate_cost(shipping.self, shipping.method,
                                                FloatOfInt(shipping.w2))]
    /\ ShippingFrame

(* bulk_estimate: estimates = []; total_cost = 0.0 *)
BulkEstimateBegin ==
    /\ shipping.pc = "quoted_both"
    /\ shipping' = [shipping EXCEPT !.pc = "bulk", !.estimates = <<>>,
                                    !.total_cost = FloatZero]
    /\ ShippingFrame

(* estimates.append(details); total_cost += cost, or the ValueError *)
BulkEstimateQuoted(state, quote) ==
    IF quote.raised # "" THEN [state EXCEPT !.pc = "bulk_raised"]
    ELSE [state EXCEPT !.estimates = Append(@, quote.details),
                       !.total_cost = FloatAdd(@, quote.total)]

(* method = item.get('method', 'media_mail'); weight = item.get('weight_oz', 5.0) *)
BulkEstimateOf(state, item) ==
    BulkEstimateQuoted(state,
        calculate_cost(state.self, ItemGet(item, "method", "media_mail"),
                       FloatOfInt(ItemGet(item, "weight_oz", DefaultItemWeight))))

(* bulk_estimate: one pass of the loop over items; a ValueError of         *)
(* calculate_cost leaves bulk_estimate                                     *)
BulkEstimateItem ==
    /\ shipping.pc = "bulk"
    /\ Len(shipping.estimates) < Len(shipping.items)
    /\ shipping' = BulkEstimateOf(shipping, shipping.items[Len(shipping.estimates) + 1])
    /\ ShippingFrame

(* bulk_estimate: the return statement *)
BulkEstimateReturn ==
    /\ shipping.pc = "bulk"
    /\ Len(shipping.estimates) = Len(shipping.items)
    /\ shipping' = [shipping EXCEPT
                      !.pc = "bulk_done",
                      !.result = [items |-> shipping.estimates,
                                  total_cost |-> FloatOfCents(PyRound2(shipping.total_cost)),
                                  count |-> Len(shipping.items)]]
    /\ ShippingFrame

NextShipping ==
    \/ CalculateCost
    \/ CalculateCostHeavier
    \/ BulkEstimateBegin
    \/ BulkEstimateItem
    \/ BulkEstimateReturn

SpecShipping == InitShippingCall /\ [][NextShipping]_vars

Quoted == shipping.pc \in {"quoted", "quoted_both", "bulk", "bulk_raised", "bulk_done"}
QuotedBoth == shipping.pc \in {"quoted_both", "bulk", "bulk_raised", "bulk_done"}
Configured(method) == method \in {"media_mail", "ground_advantage"}
ItemMethod(i) ==
    IF "method" \in DOMAIN shipping.items[i] THEN shipping.items[i].method
    ELSE "media_mail"

(* C18: a quote for a method other than media_mail and ground_advantage    *)
(* fails and produces no quote; no quote is made for another method        *)
(* instead, and a bulk estimate with such an item fails and returns no     *)
(* total.                                                                  *)
C18_UnknownMethodFails ==
    /\ Quoted =>
          IF Configured(shipping.method)
          THEN shipping.quote1.raised = ""
               /\ shipping.quote1.details.method = shipping.method
          ELSE shipping.quote1 = [NoQuote EXCEPT !.raised = "ValueError"]
    /\ shipping.pc \in {"bulk", "bulk_raised", "bulk_done"} =>
          \A i \in 1..Len(shipping.estimates) :
              /\ Configured(ItemMethod(i))
              /\ shipping.estimates[i].method = ItemMethod(i)
    /\ shipping.pc = "bulk_done" =>
          \A i \in 1..Len(shipping.items) : Configured(ItemMethod(i))
    /\ shipping.pc = "bulk_raised" =>
          /\ shipping.result = [count |-> 0]
          /\ ~ Configured(ItemMethod(Len(shipping.estimates) + 1))

C18_Witness ==
    /\ shipping.pc = "bulk_raised"
    /\ Len(shipping.estimates) = 1
    /\ shipping.items[2].method = "priority"
    /\ shipping.quote1.raised = ""

TierCents(w) ==
    IF w <= 16 THEN 0
    ELSE IF w <= 32 THEN 50
    ELSE IF w <= 48 THEN 100
    ELSE IF w <= 64 THEN 150
    ELSE IF w <= 128 THEN 200
    ELSE 300

(* C19: the surcharge is 0.00 up to and including 16 oz, 0.50 up to 32,    *)
(* 1.00 up to 48, 1.50 up to 64, 2.00 up to 128 and 3.00 above, 0.00 for a *)
(* weight of zero or less, and the total is base rate plus surcharge.      *)
C19_SurchargeTiersInclusive ==
    Quoted /\ shipping.quote1.raised = "" =>
        /\ shipping.quote1.details.surcharge = FloatOfCents(TierCents(shipping.w1))
        /\ CentsOf(shipping.quote1.total)
              = CentsOf(shipping.quote1.details.base_rate)
                + CentsOf(shipping.quote1.details.surcharge)

(* C20: for weights w1 < w2, zero and negative ones included, the          *)
(* surcharge of w1 is at most the surcharge of w2, and so is the total of  *)
(* the method.                                                             *)
C20_SurchargeMonotone ==
    QuotedBoth /\ shipping.quote1.raised = "" /\ shipping.quote2.raised = "" =>
        /\ shipping.w1 < shipping.w2
        /\ FloatCmp(shipping.quote1.details.surcharge,
                    shipping.quote2.details.surcharge) <= 0
        /\ FloatCmp(shipping.quote1.total, shipping.quote2.total) <= 0

C20_Witness ==
    /\ QuotedBoth
    /\ shipping.w1 = 0 - 1
    /\ shipping.w2 = 129
    /\ shipping.quote1.details.surcharge = FloatZero
    /\ shipping.quote2.details.surcharge = FloatOfCents(300)
    /\ FloatCmp(shipping.quote1.total, shipping.quote2.total) < 0

----------------------------------------------------------------------------
(* ShippingCalculator.estimate_for_media_type                              *)
(*                                                                         *)
(* A media label is a string of characters; a default weight is written in *)
(* tenths of an ounce.                                                     *)

default_weights ==
    (<<"d", "v", "d">> :> 45) @@ (<<"b", "l", "u", "r", "a", "y">> :> 40)
    @@ (<<"c", "d">> :> 30) @@ (<<"v", "i", "n", "y", "l">> :> 60)
    @@ (<<"s", "t", "e", "e", "l", "b", "o", "o", "k">> :> 80)
    @@ (<<"b", "o", "x", "s", "e", "t">> :> 120)

MediaLabels ==
    {<<"d", "v", "d">>, <<"D", "V", "D">>, <<"b", "l", "u", "r", "a", "y">>,
     <<"C", "d">>, <<"v", "i", "n", "y", "l">>,
     <<"S", "t", "e", "e", "l", "b", "o", "o", "k">>,
     <<"b", "o", "x", "s", "e", "t">>, <<"b", "o", "o", "k">>, <<>>}

(* the base rates a calculator is built with: the defaults, Media Mail     *)
(* above Ground Advantage, and the two rates equal                         *)
EstimateRates ==
    {<<>>, ("media_mail" :> 600), ("media_mail" :> 525),
     ("media_mail" :> 500) @@ ("ground_advantage" :> 500)}

NoWeight == [given |-> FALSE, oz |-> 0]
WeightArg(oz) == [given |-> TRUE, oz |-> oz]
OverrideWeights == {0 - 1, 0, 1, 5, 16, 40, MaxWeightOz}

(* default_weights.get(media_type.lower(), 5.0) *)
DefaultWeight(media_type) ==
    FloatOfRatio(ItemGet(default_weights, str_lower(media_type), DefaultWeightTenths), 10)

(* weight_oz or default_weights.get(...): None and 0 are falsy *)
ActualWeight(media_type, weight_oz) ==
    IF weight_oz.given /\ weight_oz.oz # 0 THEN FloatOfInt(weight_oz.oz)
    ELSE DefaultWeight(media_type)

(* the returned dict *)
EstimateDict(media_type, actual_weight, media_mail, ground) ==
    [media_type |-> media_type,
     estimated_weight_oz |-> actual_weight,
     media_mail |-> media_mail.details,
     ground_advantage |-> ground.details,
     recommended |-> IF FloatLt(media_mail.total, ground.total) THEN "media_mail"
                     ELSE "ground_advantage"]

(* the two calculate_cost calls for actual_weight *)
EstimateFor(self, media_type, actual_weight) ==
    EstimateDict(media_type, actual_weight,
                 calculate_cost(self, "media_mail", actual_weight),
                 calculate_cost(self, "ground_advantage", actual_weight))

estimate_for_media_type(self, media_type, weight_oz) ==
    EstimateFor(self, media_type, ActualWeight(media_type, weight_oz))

NoEstimate == [recommended |-> ""]

InitEstimateCall ==
    /\ FreshLimiter
    /\ InitPricing
    /\ InitIntake
    /\ \E c \in EstimateRates, label \in MediaLabels,
          w \in {NoWeight} \cup {WeightArg(oz) : oz \in OverrideWeights} :
          shipping = [pc |-> "estimate_called", self |-> ShippingCalculator(c),
                      media_type |-> label, weight_oz |-> w, estimate |-> NoEstimate]

(* calc.estimate_for_media_type(media_type, weight_oz) *)
EstimateForMediaType ==
    /\ shipping.pc = "estimate_called"
    /\ shipping' = [shipping EXCEPT
                      !.pc = "estimated",
                      !.estimate = estimate_for_media_type(shipping.self,
                                                           shipping.media_type,
                                                           shipping.weight_oz)]
    /\ ShippingFrame

NextEstimate == EstimateForMediaType

SpecEstimate == InitEstimateCall /\ [][NextEstimate]_vars

(* C21: the estimate recommends the method with the lower total, and       *)
(* Media Mail when the two totals are equal.                               *)
C21_RecommendsCheaperTiesMediaMail ==
    shipping.pc = "estimated" =>
        shipping.estimate.recommended
            = IF FloatCmp(shipping.estimate.media_mail.total,
                          shipping.estimate.ground_advantage.total) <= 0
              THEN "media_mail" ELSE "ground_advantage"

TableTenths(label) ==
    IF label = <<"d", "v", "d">> THEN 45
    ELSE IF label = <<"b", "l", "u", "r", "a", "y">> THEN 40
    ELSE IF label = <<"c", "d">> THEN 30
    ELSE IF label = <<"v", "i", "n", "y", "l">> THEN 60
    ELSE IF label = <<"s", "t", "e", "e", "l", "b", "o", "o", "k">> THEN 80
    ELSE IF label = <<"b", "o", "x", "s", "e", "t">> THEN 120
    ELSE 50

ExpectedWeight ==
    IF shipping.weight_oz.given THEN FloatOfInt(shipping.weight_oz.oz)
    ELSE FloatOfRatio(TableTenths(str_lower(shipping.media_type)), 10)

(* C26: without a weight override the estimate uses the default weight of  *)
(* the lower-cased label (5.0 for an unknown label); with an override of 0 *)
(* or more, both quotes and the estimated weight use the override.         *)
C26_OverrideReplacesDefaultWeight ==
    shipping.pc = "estimated"
    /\ (shipping.weight_oz.given => shipping.weight_oz.oz >= 0) =>
        /\ shipping.estimate.estimated_weight_oz = ExpectedWeight
        /\ shipping.estimate.media_mail.weight_oz = ExpectedWeight
        /\ shipping.estimate.ground_advantage.weight_oz = ExpectedWeight

----------------------------------------------------------------------------
(* BarcodeIntake and IntakeWorkflow                                        *)
(*                                                                         *)
(* A barcode is a string of characters.  The timestamps of a scan and the  *)
(* duration of a workflow are read from the clock of the machine and are   *)
(* left out of the results.                                                *)

Digits == {"0", "1", "2", "3", "4", "5", "6", "7", "8", "9"}

Barcodes ==
    {<<"1", "2">>, <<" ", "1", "2", "\n">>, <<"0", "4", "5", "4", "9", "6">>,
     <<"1", "a">>, <<" ">>, <<"1", " ", "2">>}

NoMedian == [given |-> FALSE, cents |-> 0]
MedianArg(cents) == [given |-> TRUE, cents |-> cents]
MedianArgs == {NoMedian, MedianArg(0), MedianArg(457)}

NoCalculator == [media_type |-> "", condition |-> "", cog |-> FloatZero,
                 median_price |-> None, research_log |-> <<>>]
PriceCalculators == {NoCalculator, PriceCalculator("dvd", "Acceptable", 100)}

(* str.isdigit() *)
str_isdigit_some(s) == \E i \in 1..Len(s) : s[i] \in Digits
str_isdigit(s) == s # <<>> /\ \A i \in 1..Len(s) : s[i] \in Digits

(* BarcodeIntake._classify_barcode *)
classify_barcode(barcode) ==
    IF Len(barcode) = 12 THEN "UPC-A"
    ELSE IF Len(barcode) = 13 THEN "EAN-13"
    ELSE IF Len(barcode) \in {6, 8} THEN "UPC-E"
    ELSE "UNKNOWN"

(* BarcodeIntake.__init__ *)
BarcodeIntake == [scan_history |-> <<>>, duplicates_detected |-> 0]

(* a duplicate check against the latest scan only *)
is_duplicate_of_latest(self, barcode) ==
    self.scan_history # <<>>
    /\ self.scan_history[Len(self.scan_history)].barcode = barcode

(* barcode in [scan['barcode'] for scan in self.scan_history] *)
is_duplicate(self, barcode) ==
    \E i \in 1..Len(self.scan_history) : self.scan_history[i].barcode = barcode

(* a valid scan: count the duplicate, append the result, return it *)
ScanAppend(self, result) ==
    [self |-> [scan_history |-> Append(self.scan_history, result),
               duplicates_detected |-> IF result.duplicate
                                       THEN self.duplicates_detected + 1
                                       ELSE self.duplicates_detected],
     result |-> result]

(* scan_barcode after barcode = barcode.strip() *)
ScanStripped(self, barcode) ==
    IF ~ str_isdigit(barcode)
    THEN [self |-> self,
          result |-> [valid |-> FALSE, error |-> "Barcode must be numeric",
                      barcode |-> barcode]]
    ELSE ScanAppend(self, [valid |-> TRUE, barcode |-> barcode,
                           duplicate |-> is_duplicate(self, barcode),
                           barcode_type |-> classify_barcode(barcode)])

(* BarcodeIntake.scan_barcode: the intake after the call and what it returns *)
scan_barcode(self, barcode) == ScanStripped(self, str_strip(barcode))

(* IntakeWorkflow.__init__ *)
IntakeWorkflow(price_calculator) ==
    [barcode_intake |-> BarcodeIntake, price_calculator |-> price_calculator,
     workflow_log |-> <<>>]

(* median_price and self.price_calculator, with every positive median *)
PricingWantedAtZero(self, median_price) ==
    median_price.given /\ self.price_calculator # NoCalculator

(* median_price and self.price_calculator *)
PricingWanted(self, median_price) ==
    median_price.given /\ median_price.cents # 0 /\ self.price_calculator # NoCalculator

(* Step 4 *)
WorkflowPricing(self, median_price) ==
    calculate_best_offer_prices(
        self.price_calculator,
        calculate_list_price(FloatOfCents(median_price.cents), FloatOfRatio(10, 100)))

(* the result after steps 1 and 2 *)
WorkflowClassified(barcode, classification) ==
    [status |-> "pending", barcode |-> barcode,
     steps |-> << <<"barcode_scan", "success">>, <<"item_classification", "success">> >>,
     classification |-> classification]

(* steps 4 and 5 and the status *)
WorkflowPriced(self, result, median_price) ==
    IF PricingWanted(self, median_price)
    THEN [status |-> "success", barcode |-> result.barcode,
          steps |-> Append(result.steps, <<"pricing_calculation", "success">>),
          classification |-> result.classification,
          pricing |-> WorkflowPricing(self, median_price)]
    ELSE [result EXCEPT !.status = "success"]

(* self.workflow_log.append(result); return result *)
WorkflowLogged(self, result) ==
    [self |-> [self EXCEPT !.workflow_log = Append(@, result)], result |-> result]

(* process_item after the scan: the early return of a failed scan, or the  *)
(* remaining steps                                                         *)
WorkflowScanned(self, scan, barcode, image_url, manual_condition, median_price) ==
    IF ~ scan.result.valid
    THEN [self |-> [self EXCEPT !.barcode_intake = scan.self],
          result |-> [status |-> "failed", barcode |-> barcode, steps |-> <<>>,
                      error |-> scan.result.error]]
    ELSE WorkflowLogged(
            [self EXCEPT !.barcode_intake = scan.self],
            WorkflowPriced(self,
                           WorkflowClassified(barcode,
                               classify_item(barcode, image_url, manual_condition)),
                           median_price))

(* IntakeWorkflow.process_item: the workflow after the call and what it returns *)
process_item(self, barcode, image_url, manual_condition, median_price) ==
    WorkflowScanned(self, scan_barcode(self.barcode_intake, barcode), barcode,
                    image_url, manual_condition, median_price)

(* a workflow is built, with or without a price calculator; calls records  *)
(* the calls made on it and on its barcode intake                          *)
InitWorkflow ==
    /\ FreshLimiter
    /\ InitPricing
    /\ InitShipping
    /\ \E calc \in PriceCalculators,
          manual \in {NoneArg, StrArg(<<"V", "G">>)} :
          intake = [pc |-> "workflow", self |-> IntakeWorkflow(calc),
                    image_url |-> NoneArg, manual_condition |-> manual,
                    calls |-> <<>>, returned |-> [status |-> ""]]

(* the call that was made, with what it returned *)
WorkflowCalled(state, op, barcode, median_price, call) ==
    [state EXCEPT
       !.self = IF op = "scan_barcode" THEN [@ EXCEPT !.barcode_intake = call.self]
                ELSE call.self,
       !.calls = Append(@, [op |-> op, barcode |-> barcode,
                            median_price |-> median_price, result |-> call.result]),
       !.returned = call.result]

(* workflow.barcode_intake.scan_barcode(barcode) *)
ScanBarcode ==
    /\ intake.pc = "workflow"
    /\ Len(intake.calls) < MaxWorkflowCalls
    /\ \E barcode \in Barcodes :
          intake' = WorkflowCalled(intake, "scan_barcode", barcode, NoMedian,
                                   scan_barcode(intake.self.barcode_intake, barcode))
    /\ IntakeFrame

(* workflow.process_item(barcode, image_url, manual_condition, median_price) *)
ProcessItem ==
    /\ intake.pc = "workflow"
    /\ Len(intake.calls) < MaxWorkflowCalls
    /\ \E barcode \in Barcodes, median_price \in MedianArgs :
          intake' = WorkflowCalled(intake, "process_item", barcode, median_price,
                                   process_item(intake.self, barcode, intake.image_url,
                                                intake.manual_condition, median_price))
    /\ IntakeFrame

NextWorkflow ==
    \/ ScanBarcode
    \/ ProcessItem

SpecWorkflow == InitWorkflow /\ [][NextWorkflow]_vars

AllDigits(s) ==
    Trimmed(s) # <<>>
    /\ \A i \in 1..Len(Trimmed(s)) :
          Trimmed(s)[i] \in {"0", "1", "2", "3", "4", "5", "6", "7", "8", "9"}

(* the trimmed barcodes of the valid scans among the first n calls, in call order *)
RECURSIVE ValidScans(_)
ValidScans(n) ==
    IF n = 0 THEN <<>>
    ELSE IF AllDigits(intake.calls[n].barcode)
         THEN Append(ValidScans(n - 1), Trimmed(intake.calls[n].barcode))
         ELSE ValidScans(n - 1)

ScanHistory == intake.self.barcode_intake.scan_history

(* C22: duplicates_detected is the number of valid scans whose trimmed     *)
(* barcode was scanned earlier, len(scan_history) minus the number of      *)
(* distinct barcodes in it; a first scan is not flagged; scan_history      *)
(* holds the valid scans in call order; an invalid scan changes neither.   *)
C22_DuplicatesCounted ==
    intake.pc = "workflow" =>
        /\ [i \in 1..Len(ScanHistory) |-> ScanHistory[i].barcode]
              = ValidScans(Len(intake.calls))
        /\ \A i \in 1..Len(ScanHistory) :
              ScanHistory[i].duplicate
                 <=> \E j \in 1..(i - 1) : ScanHistory[j].barcode = ScanHistory[i].barcode
        /\ intake.self.barcode_intake.duplicates_detected
              = Cardinality({i \in 1..Len(ScanHistory) : ScanHistory[i].duplicate})
        /\ intake.self.barcode_intake.duplicates_detected
              = Len(ScanHistory)
                - Cardinality({ScanHistory[i].barcode : i \in 1..Len(ScanHistory)})

C22_Witness ==
    /\ intake.pc = "workflow"
    /\ Len(intake.calls) = 3
    /\ intake.calls[1].barcode = <<"1", "2">>
    /\ intake.calls[2].barcode = <<"1", "a">>
    /\ intake.calls[3].barcode = <<" ", "1", "2", "\n">>
    /\ intake.calls[3].op = "scan_barcode"
    /\ Len(ScanHistory) = 2
    /\ intake.self.barcode_intake.duplicates_detected = 1

ProcessCalls == SelectSeq(intake.calls, LAMBDA c : c.op = "process_item")

(* C23: workflow_log holds one entry per process_item call, in call order, *)
(* each with a status, the barcode and the list of steps.                  *)
C23_OneLogEntryPerCall ==
    intake.pc = "workflow" =>
        /\ Len(intake.self.workflow_log) = Len(ProcessCalls)
        /\ \A i \in 1..Len(intake.self.workflow_log) :
              /\ {"status", "barcode", "steps"} \subseteq DOMAIN intake.self.workflow_log[i]
              /\ i <= Len(ProcessCalls) =>
                    intake.self.workflow_log[i] = ProcessCalls[i].result

LastCall == intake.calls[Len(intake.calls)]
Returned == intake.pc = "workflow" /\ intake.calls # <<>> /\ LastCall.op = "process_item"
StepNames(result) == [i \in 1..Len(result.steps) |-> result.steps[i][1]]

(* C24: process_item on a barcode that is empty after trimming or holds a  *)
(* character that is no digit returns 'failed' with an error and no        *)
(* classification or pricing step; an all-digit barcode of any length,     *)
(* scanned before or not, is processed to 'success'.                       *)
C24_InvalidBarcodeFails ==
    Returned =>
        IF AllDigits(LastCall.barcode)
        THEN intake.returned.status = "success"
        ELSE /\ intake.returned.status = "failed"
             /\ "error" \in DOMAIN intake.returned
             /\ intake.returned.steps = <<>>
             /\ DOMAIN intake.returned \cap {"classification", "pricing"} = {}

C24_Witness ==
    /\ Returned
    /\ Len(intake.calls) = 3
    /\ intake.calls[1].barcode = <<" ">>
    /\ intake.calls[1].op = "process_item"
    /\ intake.calls[1].result.status = "failed"
    /\ intake.calls[2].barcode = <<"1", "2">>
    /\ LastCall.barcode = <<"1", "2">>
    /\ intake.returned.status = "success"
    /\ intake.self.barcode_intake.duplicates_detected = 1

----------------------------------------------------------------------------
(* The limiter driven by one sequential caller. The caller follows a      *)
(* script: is_allowed, set_limit and get_stats operations, each at a given *)
(* time, one after the other; the result of every is_allowed call is kept  *)
(* in script.outcomes. A script that names one of its calls (skip) is run  *)
(* a second time on a new limiter without that call, the results of the    *)
(* first run kept in script.first.                                         *)

IsAllowedOp(at, e, k) ==
    [kind |-> "is_allowed", at |-> at, endpoint |-> e, key |-> k,
     max_requests |-> Absent, window |-> Absent]

SetLimitOp(at, e, m, w) ==
    [kind |-> "set_limit", at |-> at, endpoint |-> e, key |-> "",
     max_requests |-> m, window |-> w]

GetStatsOp(at, e) ==
    [kind |-> "get_stats", at |-> at, endpoint |-> e, key |-> "",
     max_requests |-> Absent, window |-> Absent]

(* the rules price-lookup is registered with; telegram-webhook has none *)
ReplayRules == {1, 2} \X WindowArgs

(* what the caller does between its calls: nothing, a set_limit of        *)
(* price-lookup, or a get_stats                                           *)
MiddleOps ==
    {<<>>}
    \cup {<<SetLimitOp(0, "price-lookup", r[1], r[2])>> : r \in ReplayRules}
    \cup {<<GetStatsOp(0, e)>> : e \in Endpoints}

At(ops, at) == [i \in 1..Len(ops) |-> [ops[i] EXCEPT !.at = at]]

ReplayTimes ==
    {t \in (0..MaxReplayTime) \X (0..MaxReplayTime) \X (0..MaxReplayTime) :
        t[1] <= t[2] /\ t[2] <= t[3]}

OtherPairs == {<<"price-lookup", "10.0.0.1">>, <<"telegram-webhook", "global">>}

(* a call for price-lookup/global, a call for another pair, the middle     *)
(* operation, a call for price-lookup/global; the second run leaves the    *)
(* call for the other pair out                                             *)
ScriptsWithOtherPair ==
    {[ops |-> <<IsAllowedOp(t[1], "price-lookup", "global"),
                IsAllowedOp(t[2], x[1], x[2])>>
              \o At(mid, t[2])
              \o <<IsAllowedOp(t[3], "price-lookup", "global")>>,
      skip |-> 2] : t \in ReplayTimes, x \in OtherPairs, mid \in MiddleOps}

(* four calls for price-lookup/global, the middle operation after the      *)
(* second one; one run                                                     *)
ScriptsOfOnePair ==
    {[ops |-> <<IsAllowedOp(t[1], "price-lookup", "global"),
                IsAllowedOp(t[2], "price-lookup", "global")>>
              \o At(mid, t[2])
              \o <<IsAllowedOp(t[2], "price-lookup", "global"),
                   IsAllowedOp(t[3], "price-lookup", "global")>>,
      skip |-> 0] : t \in ReplayTimes, mid \in MiddleOps}

Scripts == ScriptsWithOtherPair \cup ScriptsOfOnePair

RegisteredAtStartup(rule) ==
    /\ limits = [e \in Endpoints |-> IF e = "price-lookup" THEN rule[1] ELSE Absent]
    /\ windows = [e \in Endpoints |-> IF e = "price-lookup" THEN rule[2] ELSE Absent]

InitReplay ==
    /\ \E rule \in ReplayRules, sc \in Scripts :
          /\ RegisteredAtStartup(rule)
          /\ script = [run |-> 1, ops |-> sc.ops, skip |-> sc.skip, rule |-> rule,
                       outcomes |-> <<>>, first |-> <<>>, stats |-> <<>>]
    /\ requests = <<>>
    /\ last_cleanup = 0
    /\ lock = 0
    /\ clock = 0
    /\ thr = [p \in Threads |-> IdleThread]
    /\ last = NoCall
    /\ setter = IdleSetter
    /\ decorated = [e \in Endpoints |-> "none"]
    /\ admitted = <<>>
    /\ issued = [calls |-> 0, set_limits |-> 0]
    /\ InitPricing
    /\ InitIntake
    /\ InitShipping

RemoveAt(ops, i) == SubSeq(ops, 1, i - 1) \o SubSeq(ops, i + 1, Len(ops))

(* the operations of the run in progress *)
CurrentOps == IF script.run = 2 THEN RemoveAt(script.ops, script.skip) ELSE script.ops

(* how many operations of the run have been started *)
Started == issued.calls + issued.set_limits + Len(script.stats)

(* the previous operation has returned and its result is recorded *)
Quiet ==
    /\ \A p \in Threads : thr[p].pc = "idle"
    /\ setter.pc = "idle"
    /\ Len(script.outcomes) = issued.calls

NextOp == CurrentOps[Started + 1]

Due(kind) ==
    /\ Quiet
    /\ Started < Len(CurrentOps)
    /\ NextOp.kind = kind
    /\ NextOp.at = clock

(* time passes until the next operation is due *)
ReplayTick ==
    /\ Quiet
    /\ Started < Len(CurrentOps)
    /\ clock < NextOp.at
    /\ clock' = clock + 1
    /\ UNCHANGED <<limits, windows, requests, last_cleanup, lock, thr, setter,
                   decorated, admitted, issued, last, pricing, intake, shipping, script>>

(* is_allowed(endpoint, limit_key) *)
ReplayIsAllowed ==
    /\ Due("is_allowed")
    /\ issued' = [issued EXCEPT !.calls = @ + 1]
    /\ thr' = [thr EXCEPT ![1] = [IdleThread EXCEPT
                !.pc = "acquire", !.mode = "direct", !.endpoint = NextOp.endpoint,
                !.key = NextOp.key, !.consults = 1,
                !.complete = CompleteRules(NextOp.endpoint)]]
    /\ UNCHANGED <<limits, windows, requests, last_cleanup, lock, clock, setter,
                   decorated, admitted, last, pricing, intake, shipping, script>>

(* set_limit(endpoint, requests_per_minute, window) *)
ReplaySetLimit ==
    /\ Due("set_limit")
    /\ SetLimitCall(NextOp.endpoint, NextOp.max_requests, NextOp.window)

(* get_stats, lines 141-158: the counts of the timestamps inside the       *)
(* window, for the keys of the endpoint that are tracked                   *)
get_stats(endpoint) ==
    [endpoint |-> endpoint,
     limit |-> IF limits[endpoint] = Absent THEN "unlimited" ELSE limits[endpoint],
     window_seconds |-> WindowOrDefault(endpoint),
     current_requests |->
        [pair \in {q \in DOMAIN requests : q[1] = endpoint} |->
            Len(Recent(requests[pair], clock, WindowOrDefault(endpoint)))]]

(* get_stats(endpoint), under the lock *)
ReplayGetStats ==
    /\ Due("get_stats")
    /\ LockFree
    /\ script' = [script EXCEPT !.stats = Append(@, get_stats(NextOp.endpoint))]
    /\ UNCHANGED <<limits, windows, requests, last_cleanup, lock, clock, thr, setter,
                   decorated, admitted, issued, last, pricing, intake, shipping>>

(* the caller keeps the result of the call that has just returned *)
ReplayNote ==
    /\ \A p \in Threads : thr[p].pc = "idle"
    /\ Len(script.outcomes) < issued.calls
    /\ script' = [script EXCEPT !.outcomes = Append(@,
                    [op |-> Started, at |-> clock, endpoint |-> last.endpoint,
                     key |-> last.key, pc |-> last.pc, allowed |-> last.allowed,
                     retry |-> last.retry, max_requests |-> last.max_requests])]
    /\ UNCHANGED <<limits, windows, requests, last_cleanup, lock, clock, thr, setter,
                   decorated, admitted, issued, last, pricing, intake, shipping>>

(* the script is run again, without its skipped call, on a limiter         *)
(* constructed and registered as the first one was                         *)
ReplayAgain ==
    /\ Quiet
    /\ script.run = 1
    /\ script.skip # 0
    /\ Started = Len(script.ops)
    /\ limits' = [e \in Endpoints |->
                    IF e = "price-lookup" THEN script.rule[1] ELSE Absent]
    /\ windows' = [e \in Endpoints |->
                    IF e = "price-lookup" THEN script.rule[2] ELSE Absent]
    /\ requests' = <<>>
    /\ last_cleanup' = 0
    /\ clock' = 0
    /\ last' = NoCall
    /\ admitted' = <<>>
    /\ issued' = [calls |-> 0, set_limits |-> 0]
    /\ script' = [script EXCEPT !.run = 2, !.first = script.outcomes,
                                !.outcomes = <<>>, !.stats = <<>>]
    /\ UNCHANGED <<lock, thr, setter, decorated, pricing, intake, shipping>>

NextReplay ==
    \/ ReplayTick
    \/ ReplayIsAllowed
    \/ ReplaySetLimit
    \/ SetLimitLine42
    \/ ReplayGetStats
    \/ \E p \in Threads : Acquire(p)
    \/ \E p \in Threads : Check(p)
    \/ \E p \in Threads : Prune(p)
    \/ \E p \in Threads : Admit(p, TRUE)
    \/ ReplayNote
    \/ ReplayAgain

SpecReplay == InitReplay /\ [][NextReplay]_vars

----------------------------------------------------------------------------
(* Claims about the sweep, the tracked keys, the retry hint and the        *)
(* isolation of the pairs (SpecReplay)                                     *)

(* a step of one limiter: not the step that starts the second run *)
SameLimiter == script'.run = script.run

(* the thread that takes the lock in this step, lines 70-71 *)
EntersIsAllowed(p) == thr[p].pc = "acquire" /\ thr'[p].pc = "check"

(* the thread that stores its pruned list in this step, line 83 *)
StoresRecent(p, q) == thr[p].pc = "prune" /\ <<thr[p].endpoint, thr[p].key>> = q

Range(seq) == {seq[i] : i \in 1..Len(seq)}

InsideWindow(ts, now, window) == SelectSeq(ts, LAMBDA t : now - t < Ticks(window))

(* C25: the sweep runs only in a step that enters is_allowed, and only     *)
(* when at least cleanup_interval seconds have passed since the previous   *)
(* sweep or since construction; outside a sweep a log loses timestamps     *)
(* only to the pruning of a call for its own pair. When the sweep runs it  *)
(* prunes every tracked log: afterwards no log holds a timestamp older     *)
(* than the current window of its endpoint (60 s without a rule), every    *)
(* timestamp still inside that window is kept, and nothing is added.       *)
C25_SweepOnlyWhenDueAndExact ==
    [][SameLimiter =>
        /\ last_cleanup' # last_cleanup =>
              /\ \E p \in Threads : EntersIsAllowed(p)
              /\ clock - last_cleanup >= Ticks(CleanupIntervalSec)
              /\ last_cleanup' = clock
              /\ \A q \in DOMAIN requests :
                    /\ q \in DOMAIN requests'
                    /\ \A t \in Range(requests'[q]) :
                          /\ clock - t <= Ticks(WindowOrDefault(q[1]))
                          /\ t \in Range(requests[q])
                    /\ InsideWindow(requests'[q], clock, WindowOrDefault(q[1]))
                          = InsideWindow(requests[q], clock, WindowOrDefault(q[1]))
        /\ \A q \in DOMAIN requests :
              (q \in DOMAIN requests' /\ Len(requests'[q]) < Len(requests[q]))
                 => \/ last_cleanup' # last_cleanup
                    \/ \E p \in Threads : StoresRecent(p, q)
      ]_vars

(* a call for one pair has just swept, and the log of another pair, which *)
(* had admitted a request, is empty                                       *)
C25_Witness ==
    \E p \in Threads :
        /\ thr[p].pc = "check"
        /\ last_cleanup = clock
        /\ clock > 0
        /\ \E q \in DOMAIN requests :
              /\ q # <<thr[p].endpoint, thr[p].key>>
              /\ requests[q] = <<>>
              /\ q \in DOMAIN admitted
              /\ admitted[q] # <<>>

(* C29: no operation of the limiter removes a tracked pair: the set of     *)
(* tracked pairs only grows, a pair enters it only when a call for a       *)
(* registered endpoint stores its pruned list, and it then stays, with an  *)
(* empty log when the sweep or the pruning has removed its timestamps;     *)
(* get_stats leaves the request map as it is.                              *)
C29_TrackedKeysNeverRemoved ==
    [][SameLimiter =>
        /\ DOMAIN requests \subseteq DOMAIN requests'
        /\ \A q \in DOMAIN requests' \ DOMAIN requests :
              \E p \in Threads : StoresRecent(p, q) /\ limits[q[1]] # Absent
        /\ \A p \in Threads :
              thr[p].pc = "prune" => <<thr[p].endpoint, thr[p].key>> \in DOMAIN requests'
        /\ script'.stats # script.stats => requests' = requests
      ]_vars

(* get_stats and a call for the endpoint without a rule have been made;   *)
(* the pair that was admitted is tracked with an empty log, and it is the  *)
(* only tracked pair                                                       *)
C29_Witness ==
    /\ script.run = 1
    /\ Len(script.stats) = 1
    /\ \E i \in 1..Len(script.outcomes) :
          script.outcomes[i].endpoint = "telegram-webhook"
    /\ DOMAIN requests = {<<"price-lookup", "global">>}
    /\ requests[<<"price-lookup", "global">>] = <<>>
    /\ <<"price-lookup", "global">> \in DOMAIN admitted

(* the results of the run in progress *)
Outcomes == script.outcomes

SamePair(a, b) == a.endpoint = b.endpoint /\ a.key = b.key

Denied(a) == a.pc = "returned" /\ ~ a.allowed

(* no set_limit of endpoint e between the operations numbered m and n *)
RuleUnchangedBetween(e, m, n) ==
    \A x \in (m + 1)..(n - 1) :
        ~ (CurrentOps[x].kind = "set_limit" /\ CurrentOps[x].endpoint = e)

(* no call for the pair of a is admitted between the results i and j *)
NoneAdmittedBetween(a, i, j) ==
    \A x \in (i + 1)..(j - 1) :
        SamePair(Outcomes[x], a) => ~ Outcomes[x].allowed

(* C28: when a call for a pair is denied at time t with retry_after = r    *)
(* under a rule with max_requests >= 1, a later call for that pair at a    *)
(* time >= t + r is admitted, provided that in between the rule of the     *)
(* endpoint was not changed and no call for the pair was admitted; denied  *)
(* calls in between do not matter.                                         *)
C28_RetryAfterSufficient ==
    \A i \in 1..Len(Outcomes) : \A j \in (i + 1)..Len(Outcomes) :
        (/\ Denied(Outcomes[i])
         /\ Outcomes[i].max_requests >= 1
         /\ SamePair(Outcomes[i], Outcomes[j])
         /\ Outcomes[j].at >= Outcomes[i].at + Ticks(Outcomes[i].retry)
         /\ RuleUnchangedBetween(Outcomes[i].endpoint, Outcomes[i].op, Outcomes[j].op)
         /\ NoneAdmittedBetween(Outcomes[i], i, j))
        => Outcomes[j].pc = "returned" /\ Outcomes[j].allowed

(* the call the second run leaves out *)
SkippedCall == script.ops[script.skip]

(* the number, in the first run, of the operation numbered n in the second *)
OpInFirstRun(n) == IF n < script.skip THEN n ELSE n + 1

(* a step adds a timestamp to the log of q only as the admission of a call *)
(* for q, line 86                                                          *)
AppendsOnlyOwnLog ==
    \A q \in DOMAIN requests' :
        (\E t \in Range(requests'[q]) : t \notin Range(Log(q[1], q[2])))
           => \E p \in Threads :
                 /\ thr[p].pc = "admit"
                 /\ <<thr[p].endpoint, thr[p].key>> = q

(* every call of the second run, being for another pair than the call     *)
(* left out, ends as it did in the first run                               *)
SameOutcomesWithout ==
    script.run = 2 =>
        \A j \in 1..Len(Outcomes) : \A i \in 1..Len(script.first) :
            (/\ script.first[i].op = OpInFirstRun(Outcomes[j].op)
             /\ ~ (/\ Outcomes[j].endpoint = SkippedCall.endpoint
                   /\ Outcomes[j].key = SkippedCall.key))
            => /\ script.first[i].pc = Outcomes[j].pc
               /\ script.first[i].allowed = Outcomes[j].allowed

(* C27: admission is isolated per (endpoint, limit_key): a call for one    *)
(* pair adds no timestamp to the log of another pair, and in a sequence of *)
(* is_allowed and set_limit operations, removing (or inserting) a call for *)
(* one pair changes the allow/deny outcome of no call for another pair.    *)
C27_IsolatedPerPair ==
    /\ [][SameLimiter => AppendsOnlyOwnLog]_vars
    /\ []SameOutcomesWithout

====
